---- MODULE Spec2Model ----
(***************************************************************************)
(* The effect editor of the KSH exporter (KSH2VOXApp): the chart's effect  *)
(* definitions, the autotab settings and the laser-effect references, and  *)
(* the callbacks of the "Effects", "Laser effects" and "Autotab params"    *)
(* tabs that edit them.                                                    *)
(*                                                                         *)
(* Every callback is an operator from a state record to a state record.    *)
(* A Python exception ends the callback where it is raised: what was       *)
(* assigned before stays assigned, what follows is not run, and the GUI    *)
(* toolkit goes on to serve the next callback.  The field exc of the state *)
(* record a callback returns names the exception it ended with.            *)
(*                                                                         *)
(* Python lists are sequences; a Python index i is the position i + 1.     *)
(***************************************************************************)
EXTENDS Integers, Sequences, FiniteSets, TLC

VARIABLES
    effect_list,          \* chart_info.effect_list: list of EffectEntry
    autotab_list,         \* chart_info.autotab_list: list of AutoTabEntry
    autotab_infos,        \* chart_info.autotab_infos: in time order, [which]
    effect_def_combo,     \* ui["effect_def_combo"]: [items, value]
    autotab_effect_combo, \* ui["autotab_effect_combo"]: [items, value]
    param_combo,          \* slot -> ui["autotab_effect_<slot>_param_combo"]
    param_setting,        \* slot -> the "Param range" input of the slot exists
    laser_combo,          \* time point -> number of items of its combo box
    log,                  \* the newest lines of the log pane, newest first
    song_info,            \* song_chart_data.song_info, NoSongInfo before a load
    buttons,              \* button -> its "enabled" configuration
    loaded_file,          \* ui["loaded_file"]: the file named beside "Open file..."
    log_pane,             \* the children of ui["log"] and ui["log_last_line"]
    written,              \* what the last export wrote to its file
    gmbg,                 \* background_id, the gmbg_ attributes, the tooltip and the texture
    now,                  \* time.time(), in half seconds
    bpm_input,            \* the values of ui["min_bpm"] and ui["max_bpm"]
    callbacks,            \* the callback the callback thread runs and those waiting
    interp                \* the command interpreter of the parser over the body of a chart

vars == <<effect_list, autotab_list, autotab_infos, effect_def_combo,
          autotab_effect_combo, param_combo, param_setting, laser_combo,
          log, song_info, buttons, loaded_file, log_pane, written, gmbg, now, bpm_input,
          callbacks, interp>>

(***************************************************************************)
(* Bounds of the model.                                                    *)
(***************************************************************************)
\* add_new_effect is offered while the effect list is shorter than this
MaxEffects == 2
\* number of laser effects (entries of autotab_infos) of the loaded chart
NumTimePts == 2
\* the longest effect list the parser returns
MaxParsed == 2
\* number of lines of the log pane the model keeps (the newest ones)
MaxLog == 2

Slots == {1, 2}

(***************************************************************************)
(* Python list operations.                                                 *)
(***************************************************************************)
\* l[i] is defined: -len(l) <= i < len(l)
InRange(l, i) == -Len(l) <= i /\ i < Len(l)

\* l[i], a negative i counting from the end
ListGet(l, i) == IF i < 0 THEN l[Len(l) + i + 1] ELSE l[i + 1]

\* l[i] = x
ListSet(l, i, x) == [l EXCEPT ![IF i < 0 THEN Len(l) + i + 1 ELSE i + 1] = x]

\* l.insert(i, x) for i >= 0: past the end it appends
ListInsert(l, i, x) ==
    LET p == IF i > Len(l) THEN Len(l) ELSE i
    IN  SubSeq(l, 1, p) \o <<x>> \o SubSeq(l, p + 1, Len(l))

\* l.pop(i) for an index in range: the list without l[i]
ListPop(l, i) ==
    LET p == IF i < 0 THEN Len(l) + i + 1 ELSE i + 1
    IN  SubSeq(l, 1, p - 1) \o SubSeq(l, p + 1, Len(l))

\* l.index(x): the first position of x, defined when x is in l
ListIndex(l, x) ==
    (CHOOSE k \in 1..Len(l) : l[k] = x /\ \A j \in 1..(k - 1) : l[j] # x) - 1

ListHas(l, x) == \E k \in 1..Len(l) : l[k] = x

Min(S) == CHOOSE x \in S : \A y \in S : x <= y

(***************************************************************************)
(* The effect classes of the parser library: a closed set of effect kinds, *)
(* each with its own named parameters.  Kind 0 is "no effect".             *)
(***************************************************************************)
FXType == 0..2

\* effect.__dataclass_fields__.keys() of an effect of kind t
FieldNames(t) ==
    CASE t = 1 -> <<"mix">>
      [] t = 2 -> <<"wave_length", "mix">>
      [] OTHER -> <<>>

\* enum_to_effect(t)(): an effect of kind t with the default parameters
enum_to_effect(t) == [type |-> t, params |-> [k \in 1..Len(FieldNames(t)) |-> 0]]

\* EffectEntry(e1, e2); EffectEntry() is two "no effect" slots
EffectEntry(e1, e2) == [effect1 |-> e1, effect2 |-> e2]
DefaultEffectEntry == EffectEntry(enum_to_effect(0), enum_to_effect(0))

\* AutoTabSetting(i), AutoTabEntry(i): nothing selected, both slots at index i
AutoTabSetting(i) ==
    [effect_index |-> i, param_index |-> 0, min_value |-> 0, max_value |-> 0]
AutoTabEntry(i) == [effect1 |-> AutoTabSetting(i), effect2 |-> AutoTabSetting(i)]

\* getattr(entry, f"effect{i}") and its assignment
Slot(entry, i) == IF i = 1 THEN entry.effect1 ELSE entry.effect2
WithSlot(entry, i, x) ==
    IF i = 1 THEN [entry EXCEPT !.effect1 = x] ELSE [entry EXCEPT !.effect2 = x]

\* hasattr(effect, name) and getattr(effect, name) for a parameter name
HasField(effect, name) == ListHas(FieldNames(effect.type), name)
GetField(effect, name) == effect.params[ListIndex(FieldNames(effect.type), name) + 1]

\* str(fx) of an effect entry: the names of its two effects
FxStr(entry) == <<entry.effect1.type, entry.effect2.type>>

\* [f"FX {i + 1}: {fx}" for i, fx in enumerate(effect_list)]
EffectLabels(l) == [k \in 1..Len(l) |-> <<k, FxStr(l[k])>>]

\* ["(none)"] + effect.__dataclass_fields__.keys()
ParamList(effect) == <<"(none)">> \o FieldNames(effect.type)

(***************************************************************************)
(* The state record the callbacks work on.                                 *)
(***************************************************************************)
St ==
    [effect_list |-> effect_list, autotab_list |-> autotab_list,
     autotab_infos |-> autotab_infos, effect_def_combo |-> effect_def_combo,
     autotab_effect_combo |-> autotab_effect_combo, param_combo |-> param_combo,
     param_setting |-> param_setting, laser_combo |-> laser_combo,
     log |-> log, song_info |-> song_info, buttons |-> buttons,
     loaded_file |-> loaded_file, log_pane |-> log_pane, written |-> written,
     gmbg |-> gmbg, now |-> now, bpm_input |-> bpm_input, callbacks |-> callbacks,
     interp |-> interp, exc |-> "none"]

Raise(s, e) == [s EXCEPT !.exc = e]
Ok(s) == s.exc = "none"

\* the state the next callback starts from
Resume(s) == [s EXCEPT !.exc = "none"]

\* get_combo_index(obj): item_list.index(dpg.get_value(obj)); a value that is
\* not among the items raises ValueError
HasComboIndex(combo) == ListHas(combo.items, combo.value)
get_combo_index(combo) == ListIndex(combo.items, combo.value)

\* The log pane in full: its children from top to bottom, each with the id
\* dpg.add_text gave it, and ui["log_last_line"] (0 as the window is built).
\* A specification that does not look at the pane in full leaves it
\* PaneNotKept and follows the newest MaxLog lines in log only.
PaneNotKept == [kept |-> FALSE]
EmptyPane == [kept |-> TRUE, children |-> <<>>, log_last_line |-> 0]

\* a pane whose every new line is added at the bottom
add_text_last(pane, line) ==
    LET id == Len(pane.children) + 1
    IN  [pane EXCEPT !.children = Append(@, [id |-> id, line |-> line]),
                     !.log_last_line = id]

\* dpg.add_text(message, parent=ui["log"], before=ui["log_last_line"]) and
\* the assignment of its id to ui["log_last_line"]: before = 0 adds the
\* line at the bottom, another id right above the child of that id
add_text(pane, line) ==
    LET id == Len(pane.children) + 1
        at == CHOOSE k \in 1..Len(pane.children) : pane.children[k].id = pane.log_last_line
        new == [id |-> id, line |-> line]
    IN  [pane EXCEPT
           !.children = IF pane.log_last_line = 0 THEN Append(@, new)
                        ELSE SubSeq(@, 1, at - 1) \o <<new>> \o SubSeq(@, at, Len(@)),
           !.log_last_line = id]

\* self.log(message): the new line goes before the last line added
Newest(lines) == IF Len(lines) > MaxLog THEN SubSeq(lines, 1, MaxLog) ELSE lines
LogLine(s, line) ==
    [s EXCEPT !.log = Newest(<<line>> \o @),
              !.log_pane = IF @.kept THEN add_text(@, line) ELSE @]

(***************************************************************************)
(* The buttons disable_buttons lists, and the metadata of the song.        *)
(***************************************************************************)
MainButtons == {"open_button", "vox_button", "xml_button", "2dx_button", "jackets_button"}
ExportButtons == {"vox_button", "xml_button", "2dx_button", "jackets_button"}
EffectButtons == {"effect_def_new", "effect_def_update", "effect_def_delete"}
Buttons == MainButtons \cup EffectButtons

\* the buttons as the window is built: the four export buttons disabled
InitialButtons == [b \in Buttons |-> b \notin ExportButtons]

\* update_effect_def_button_state()
update_effect_def_button_state(s) ==
    LET button_state == s.effect_list # <<>>
    IN  [s EXCEPT !.buttons.effect_def_update = button_state,
                  !.buttons.effect_def_delete = button_state]

\* A text is a sequence of characters, a character one of: "kana" (half-width
\* katakana, U+FF66..U+FF9F), "ascii", "wide" (anything else).
\* YOMIGANA_VALIDATION_REGEX.match(text) is not None, the regex being
\* "^[\uFF66-\uFF9F]+": the text begins with a half-width katakana
YomiganaMatch(text) == Len(text) >= 1 /\ text[1] = "kana"

\* text and text.isascii()
AsciiLabelOk(text) == text # <<>> /\ \A k \in 1..Len(text) : text[k] = "ascii"

\* time.strptime(date, "%Y%m%d") does not raise ValueError
StrptimeOk(date) == date \in {"20240229", "2024229"}

(***************************************************************************)
(* Refreshing the three tabs.                                              *)
(***************************************************************************)
\* populate_effects_list(list_index).  load_effects and load_effect_params
\* rebuild the type combos and parameter inputs of the "Effects" tab from
\* the entry just selected, and the buttons stay enabled (the list is not
\* empty when it gets here).
populate_effects_list(s, list_index) ==
    LET effect_list_ == EffectLabels(s.effect_list)
        s1 == [s EXCEPT !.effect_def_combo.items = effect_list_]
    IN  IF ~InRange(effect_list_, list_index) THEN Raise(s1, "IndexError")
        ELSE update_effect_def_button_state(
                 [s1 EXCEPT !.effect_def_combo.value = ListGet(effect_list_, list_index)])

\* update_laser_effect_combo_box(): in time order, each combo gets the new
\* items and then shows combo_items[which]
update_laser_effect_combo_box(s) ==
    LET combo_items == EffectLabels(s.effect_list)
        bad == {t \in DOMAIN s.autotab_infos : ~InRange(combo_items, s.autotab_infos[t].which)}
        stop == IF bad = {} THEN Len(s.autotab_infos) ELSE Min(bad)
        s1 == [s EXCEPT !.laser_combo =
                  [t \in DOMAIN s.laser_combo |-> IF t <= stop THEN Len(combo_items) ELSE @[t]]]
    IN  IF bad = {} THEN s1 ELSE Raise(s1, "IndexError")

\* one pass of the loop of update_autotab_param_settings(sender) for slot i;
\* sender = 0 stands for None
ParamSettingStep(s, sender, i, effect_index) ==
    IF ~InRange(s.autotab_list, effect_index) \/ ~InRange(s.effect_list, effect_index)
    THEN Raise(s, "IndexError")
    ELSE
    LET param_name == s.param_combo[i].value
        effect == Slot(ListGet(s.effect_list, effect_index), i)
        s1 == [s EXCEPT !.param_setting[i] = FALSE]
    IN  IF sender # 0 /\ sender # i THEN s
        ELSE IF ~HasComboIndex(s.param_combo[i]) THEN Raise(s1, "ValueError")
        ELSE
        LET combo_index == get_combo_index(s.param_combo[i])
            entry == ListGet(s1.autotab_list, effect_index)
            s2 == [s1 EXCEPT !.autotab_list = ListSet(@, effect_index,
                      WithSlot(entry, i, [Slot(entry, i) EXCEPT !.param_index = combo_index]))]
            entry2 == ListGet(s2.autotab_list, effect_index)
            s3 == [s2 EXCEPT !.autotab_list = ListSet(@, effect_index,
                      WithSlot(entry2, i, [Slot(entry2, i) EXCEPT
                          !.min_value = GetField(effect, param_name),
                          !.max_value = GetField(effect, param_name)]))]
        IN  IF combo_index = 0 THEN s1
            ELSE IF sender = 0 THEN [s1 EXCEPT !.param_setting[i] = TRUE]
            ELSE IF ~HasField(effect, param_name) THEN Raise(s2, "AttributeError")
            ELSE [s3 EXCEPT !.param_setting[i] = TRUE]

\* update_autotab_param_settings(sender)
update_autotab_param_settings(s, sender) ==
    IF ~HasComboIndex(s.autotab_effect_combo) THEN Raise(s, "ValueError")
    ELSE
    LET effect_index == get_combo_index(s.autotab_effect_combo)
        s1 == ParamSettingStep(s, sender, 1, effect_index)
    IN  IF ~Ok(s1) THEN s1 ELSE ParamSettingStep(s1, sender, 2, effect_index)

\* the two halves of update_autotab_params: the parameter combo of slot i
\* gets the parameter names of the effect and shows param_list[param_index]
SetParamCombo(s, i, effect_entry, autotab_params) ==
    LET param_list == ParamList(Slot(effect_entry, i))
        param_index == Slot(autotab_params, i).param_index
        s1 == [s EXCEPT !.param_combo[i].items = param_list]
    IN  IF ~InRange(param_list, param_index) THEN Raise(s1, "IndexError")
        ELSE [s1 EXCEPT !.param_combo[i].value = ListGet(param_list, param_index)]

\* update_autotab_params()
update_autotab_params(s) ==
    IF ~HasComboIndex(s.autotab_effect_combo) THEN Raise(s, "ValueError")
    ELSE
    LET effect_index == get_combo_index(s.autotab_effect_combo)
    IN  IF ~InRange(s.effect_list, effect_index) \/ ~InRange(s.autotab_list, effect_index)
        THEN Raise(s, "IndexError")
        ELSE
        LET effect_entry == ListGet(s.effect_list, effect_index)
            autotab_params == ListGet(s.autotab_list, effect_index)
            s1 == SetParamCombo(s, 1, effect_entry, autotab_params)
            s2 == SetParamCombo(s1, 2, effect_entry, autotab_params)
        IN  IF ~Ok(s1) THEN s1
            ELSE IF ~Ok(s2) THEN s2
            ELSE update_autotab_param_settings(s2, 0)

\* populate_track_autotab_list(list_index)
populate_track_autotab_list(s, list_index) ==
    LET effect_list_ == EffectLabels(s.effect_list)
        s1 == [s EXCEPT !.autotab_effect_combo.items = effect_list_]
    IN  IF ~InRange(effect_list_, list_index) THEN Raise(s1, "IndexError")
        ELSE update_autotab_params(
                 [s1 EXCEPT !.autotab_effect_combo.value = ListGet(effect_list_, list_index)])

(***************************************************************************)
(* The three buttons of the "Effects" tab.                                 *)
(***************************************************************************)
\* the line logger.warning(...) of delete_effect puts in the log pane
DeletedWarning(timept) == [level |-> "WARNING", text |-> "effect deleted", timept |-> timept]

\* the first loop of add_new_effect
AddShiftInfos(infos, effect_index) ==
    [t \in DOMAIN infos |->
        IF infos[t].which < effect_index THEN infos[t]
        ELSE [infos[t] EXCEPT !.which = @ + 1]]

\* the second loop of add_new_effect
AddShiftAutotab(list, effect_index) ==
    [k \in 1..Len(list) |->
        IF list[k].effect1.effect_index < effect_index THEN list[k]
        ELSE [list[k] EXCEPT !.effect1.effect_index = @ + 1,
                             !.effect2.effect_index = @ + 1]]

\* the autotab_index add_new_effect hands to populate_track_autotab_list
AddAutotabIndex(autotab_index, effect_index) ==
    IF autotab_index >= effect_index THEN autotab_index + 1 ELSE autotab_index

\* add_new_effect()
add_new_effect(s) ==
    IF ~HasComboIndex(s.effect_def_combo) THEN Raise(s, "ValueError")
    ELSE
    LET effect_index == get_combo_index(s.effect_def_combo)
        s1 == [s EXCEPT !.autotab_infos = AddShiftInfos(@, effect_index)]
    IN  IF ~HasComboIndex(s1.autotab_effect_combo) THEN Raise(s1, "ValueError")
        ELSE
        LET index0 == get_combo_index(s1.autotab_effect_combo)
            autotab_index == AddAutotabIndex(index0, effect_index)
            s2 == [s1 EXCEPT
                     !.autotab_list = ListInsert(AddShiftAutotab(@, effect_index),
                                                 effect_index, AutoTabEntry(effect_index)),
                     !.effect_list = ListInsert(@, effect_index, DefaultEffectEntry)]
            s3 == populate_effects_list(s2, effect_index)
            s4 == update_laser_effect_combo_box(s3)
        IN  IF ~Ok(s3) THEN s3
            ELSE IF ~Ok(s4) THEN s4
            ELSE populate_track_autotab_list(s4, autotab_index)

\* update_effect(), the type combos and parameter inputs of the "Effects"
\* tab holding the effects widgets.effect1 and widgets.effect2
update_effect(s, widgets) ==
    IF ~HasComboIndex(s.effect_def_combo) THEN Raise(s, "ValueError")
    ELSE
    LET effect_index == get_combo_index(s.effect_def_combo)
        effect_1 == widgets.effect1
        effect_2 == widgets.effect2
        s1 == [s EXCEPT !.effect_list = ListSet(@, effect_index, EffectEntry(effect_1, effect_2))]
        s2 == [s1 EXCEPT !.autotab_list = ListSet(@, effect_index, AutoTabEntry(effect_index))]
        s3 == populate_effects_list(s2, effect_index)
        s4 == update_laser_effect_combo_box(s3)
    IN  IF ~InRange(s.effect_list, effect_index) THEN Raise(s, "IndexError")
        ELSE IF ~InRange(s1.autotab_list, effect_index) THEN Raise(s1, "IndexError")
        ELSE IF ~Ok(s3) THEN s3
        ELSE IF ~Ok(s4) THEN s4
        ELSE IF ~HasComboIndex(s4.autotab_effect_combo) THEN Raise(s4, "ValueError")
        ELSE populate_track_autotab_list(s4, get_combo_index(s4.autotab_effect_combo))

\* the first loop of delete_effect: the references, shifted
DeleteShiftInfos(infos, effect_index) ==
    [t \in DOMAIN infos |->
        IF infos[t].which < effect_index THEN infos[t]
        ELSE [infos[t] EXCEPT !.which = @ - 1]]

\* a first loop that warns once however many laser effects name the entry
DeleteWarningsOnce(infos, effect_index) ==
    IF \E t \in 1..Len(infos) : infos[t].which = effect_index
    THEN <<DeletedWarning(Min({t \in 1..Len(infos) : infos[t].which = effect_index}))>>
    ELSE <<>>

\* the first loop of delete_effect: the warnings, the newest first
DeleteWarnings(infos, effect_index) ==
    LET hit == SelectSeq([t \in 1..Len(infos) |-> t],
                         LAMBDA t : infos[t].which = effect_index)
    IN  [k \in 1..Len(hit) |-> DeletedWarning(hit[Len(hit) + 1 - k])]

\* the second loop of delete_effect
DeleteShiftAutotab(list, effect_index) ==
    [k \in 1..Len(list) |->
        IF list[k].effect1.effect_index < effect_index THEN list[k]
        ELSE [list[k] EXCEPT !.effect1.effect_index = @ - 1,
                             !.effect2.effect_index = @ - 1]]

\* delete_effect(), from "Don't allow effect list to be empty" on
DeleteRefill(s, effect_index) ==
    LET s1 == [s EXCEPT !.effect_list = Append(@, DefaultEffectEntry)]
        s2 == [s1 EXCEPT !.autotab_list = ListPop(@, effect_index)]
    IN  IF s.effect_list # <<>> THEN s
        ELSE IF ~InRange(s1.autotab_list, effect_index) THEN Raise(s1, "IndexError")
        ELSE s2

\* the autotab_index delete_effect hands to populate_track_autotab_list
DeleteAutotabIndex(autotab_index, effect_index) ==
    IF autotab_index >= effect_index THEN autotab_index - 1 ELSE autotab_index

\* the effect_index delete_effect hands to populate_effects_list
DeleteListIndex(effect_index, effect_list_) ==
    IF effect_index = Len(effect_list_) THEN effect_index - 1 ELSE effect_index

\* delete_effect()
delete_effect(s) ==
    IF ~HasComboIndex(s.effect_def_combo) THEN Raise(s, "ValueError")
    ELSE
    LET effect_index == get_combo_index(s.effect_def_combo)
        s1 == [s EXCEPT
                 !.autotab_infos = DeleteShiftInfos(@, effect_index),
                 !.log = Newest(DeleteWarnings(s.autotab_infos, effect_index) \o @)]
    IN  IF ~HasComboIndex(s1.autotab_effect_combo) THEN Raise(s1, "ValueError")
        ELSE
        LET index0 == get_combo_index(s1.autotab_effect_combo)
            autotab_index == DeleteAutotabIndex(index0, effect_index)
            s2 == [s1 EXCEPT !.autotab_list = DeleteShiftAutotab(@, effect_index)]
            s3 == [s2 EXCEPT !.effect_list = ListPop(@, effect_index)]
            s4 == [s3 EXCEPT !.autotab_list = ListPop(@, effect_index)]
            s5 == DeleteRefill(s4, effect_index)
            list_index == DeleteListIndex(effect_index, s5.effect_list)
            s6 == populate_effects_list(s5, list_index)
            s7 == update_laser_effect_combo_box(s6)
        IN  IF ~InRange(s2.effect_list, effect_index) THEN Raise(s2, "IndexError")
            ELSE IF ~InRange(s3.autotab_list, effect_index) THEN Raise(s3, "IndexError")
            ELSE IF ~Ok(s5) THEN s5
            ELSE IF ~Ok(s6) THEN s6
            ELSE IF ~Ok(s7) THEN s7
            ELSE populate_track_autotab_list(s7, autotab_index)

(***************************************************************************)
(* The callbacks of the combo boxes and of the range input.                *)
(***************************************************************************)
\* load_effects(sender), after the user picked item choice in the effect
\* combo: it reads effect_list[choice] and rebuilds the "Effects" tab
load_effects(s, choice) ==
    LET s1 == [s EXCEPT !.effect_def_combo.value = ListGet(s.effect_def_combo.items, choice)]
    IN  IF ~InRange(s1.effect_list, choice) THEN Raise(s1, "IndexError") ELSE s1

\* update_autotab_params(), after the user picked item choice in the effect
\* combo of the "Autotab params" tab
SelectAutotabEffect(s, choice) ==
    update_autotab_params([s EXCEPT !.autotab_effect_combo.value =
                                ListGet(s.autotab_effect_combo.items, choice)])

\* update_autotab_param_settings(sender), after the user picked item choice
\* in the parameter combo of slot i
SelectAutotabParam(s, i, choice) ==
    update_autotab_param_settings(
        [s EXCEPT !.param_combo[i].value = ListGet(s.param_combo[i].items, choice)], i)

\* update_chart_autotab_values(sender, app_data, user_data)
update_chart_autotab_values(s, app_data, user_data) ==
    IF ~HasComboIndex(s.autotab_effect_combo) THEN Raise(s, "ValueError")
    ELSE
    LET effect_index == get_combo_index(s.autotab_effect_combo)
        entry == ListGet(s.autotab_list, effect_index)
    IN  IF ~InRange(s.autotab_list, effect_index) THEN Raise(s, "IndexError")
        ELSE [s EXCEPT !.autotab_list = ListSet(@, effect_index,
                 WithSlot(entry, user_data, [Slot(entry, user_data) EXCEPT
                     !.min_value = app_data[1], !.max_value = app_data[2]]))]

\* update_autotab_value(sender), after the user picked item choice in the
\* combo of the laser effect at timept
update_autotab_value(s, timept, choice) ==
    [s EXCEPT !.autotab_infos[timept].which = choice]

(***************************************************************************)
(* Loading a chart.                                                        *)
(***************************************************************************)
\* the metadata the parser returns for a chart that names no yomigana and
\* no label
ParsedSongInfo ==
    [title_yomigana |-> <<>>, artist_yomigana |-> <<>>, ascii_label |-> <<>>,
     release_date |-> "20240229", background |-> 1, min_bpm |-> 1, max_bpm |-> 3]

\* the charts the parser returns: an effect list of 1..maxlen entries, one
\* autotab entry per effect entry, each at its own index with nothing
\* selected, and n laser effects, each naming an effect entry
ParsedCharts(entries, maxlen, n) ==
    UNION {{[song_info |-> ParsedSongInfo,
             effect_list |-> el,
             autotab_list |-> [k \in 1..Len(el) |-> AutoTabEntry(k - 1)],
             autotab_infos |-> [t \in 1..n |-> [which |-> w[t]]]] :
                w \in [1..n -> 0..(Len(el) - 1)]} :
           el \in UNION {[1..m -> entries] : m \in 1..maxlen}}

\* the ids of GameBackground, and the frames the background handler has:
\* has_image(id) and get_images(id)
Backgrounds == {0, 1}
has_image(id) == id = 1
get_images(id) == IF has_image(id) THEN <<"frame0", "frame1", "frame2">> ELSE <<>>

\* background_id, the gmbg_ attributes, the bg_tooltip and the gmbg_texture
\* as the window is built
InitialPreview ==
    [background_id |-> 0, available |-> TRUE, visible |-> FALSE, visible_time |-> 0,
     images |-> <<>>, image_index |-> 0, tooltip_show |-> TRUE, texture |-> "blank"]

\* no parse is under way
NoParse == [timept |-> 0]

\* the callback thread runs no callback and none waits
Idle == [at |-> "idle"]
NoCallbacks == [running |-> Idle, queue |-> <<>>]

\* no export has written a file
NoFile == [kind |-> "none"]

\* the attribute song_chart_data is not set
NoSongInfo == [unset |-> TRUE]

\* the two BPM inputs of the "Song info" tab, and their values as the
\* window is built
BpmFields == {"min_bpm", "max_bpm"}
InitialBpmInput == [f \in BpmFields |-> 0]

\* the window before a chart is loaded
Unloaded ==
    [effect_list |-> <<>>, autotab_list |-> <<>>, autotab_infos |-> <<>>,
     effect_def_combo |-> [items |-> <<>>, value |-> <<>>],
     autotab_effect_combo |-> [items |-> <<>>, value |-> <<>>],
     param_combo |-> [i \in Slots |-> [items |-> <<>>, value |-> ""]],
     param_setting |-> [i \in Slots |-> FALSE],
     laser_combo |-> <<>>,
     log |-> <<>>, song_info |-> NoSongInfo, buttons |-> InitialButtons,
     loaded_file |-> "[no file loaded]", log_pane |-> PaneNotKept,
     written |-> NoFile, gmbg |-> InitialPreview, now |-> 0,
     bpm_input |-> InitialBpmInput, callbacks |-> NoCallbacks, interp |-> NoParse, exc |-> "none"]

\* populate_laser_effect_list(): one combo per laser effect
populate_laser_effect_list(s) ==
    update_laser_effect_combo_box(
        [s EXCEPT !.laser_combo = [t \in DOMAIN s.autotab_infos |-> 0]])

\* disable_buttons.__enter__ and __exit__; button_state is what __enter__
\* saved
\* an __enter__ whose list of buttons lacks the effect definition buttons
disable_buttons_enter_main(s) ==
    [s EXCEPT !.buttons = [b \in Buttons |-> IF b \in MainButtons THEN FALSE ELSE @[b]]]

disable_buttons_enter(s) == [s EXCEPT !.buttons = [b \in Buttons |-> FALSE]]

\* an __exit__ that an exception in the block passes by
disable_buttons_exit_unless_raised(s, button_state) ==
    IF Ok(s) THEN [s EXCEPT !.buttons = button_state] ELSE s

disable_buttons_exit(s, button_state) == [s EXCEPT !.buttons = button_state]

\* the file dialog of load_ksh closed without a file
Cancelled == [name |-> "", chart |-> [none |-> TRUE]]

\* what stands for the chart of a file the parser raises on
ParserRaises == [error |-> TRUE]

\* load_ksh(), lines 758-784: the file dialog returned file, and the parser
\* returns file.chart or, file.chart being ParserRaises, raises
LoadBody(s, file) ==
    LET chart == file.chart
        s0 == [s EXCEPT !.loaded_file = file.name]
        s1 == LogLine(s0, [level |-> "INFO", text |-> "Reading from", timept |-> 0])
        s2 == [s1 EXCEPT !.song_info = chart.song_info,
                         !.bpm_input = [f \in BpmFields |-> chart.song_info[f]],
                         !.effect_list = chart.effect_list,
                         !.autotab_list = chart.autotab_list,
                         !.autotab_infos = chart.autotab_infos]
        s3 == LogLine(s2, [level |-> "INFO", text |-> "Chart loaded", timept |-> 0])
        s4 == populate_effects_list(s3, 0)
        s5 == populate_laser_effect_list(s4)
        s6 == populate_track_autotab_list(s5, 0)
    IN  IF chart = ParserRaises THEN Raise(s1, "ParseError")
        ELSE IF ~Ok(s4) THEN s4 ELSE IF ~Ok(s5) THEN s5 ELSE IF ~Ok(s6) THEN s6
        ELSE [s6 EXCEPT !.gmbg.background_id = chart.song_info.background,
                        !.gmbg.available = has_image(chart.song_info.background)]

\* a with block of load_ksh that a return from inside it leaves without
\* __exit__
load_ksh_block_returning(s, file) ==
    LET button_state == s.buttons
        s1 == disable_buttons_enter(s)
    IN  IF file = Cancelled THEN s1
        ELSE disable_buttons_exit(LoadBody(s1, file), button_state)

\* the with block of load_ksh, lines 746-784, the file dialog returning
\* file: left by the return at 756, by an exception or at its end
load_ksh_block(s, file) ==
    LET button_state == s.buttons
        s1 == disable_buttons_enter(s)
    IN  IF file = Cancelled THEN disable_buttons_exit(s1, button_state)
        ELSE disable_buttons_exit(LoadBody(s1, file), button_state)

\* a load_ksh that enables the export buttons however the block ends
load_ksh_enabling(s, file) ==
    LET s3 == load_ksh_block(s, file)
        s4 == [s3 EXCEPT !.buttons = [b \in Buttons |->
                                        IF b \in ExportButtons THEN TRUE ELSE @[b]]]
    IN  IF file = Cancelled \/ ~Ok(s3) THEN s4
        ELSE update_effect_def_button_state(s4)

\* load_ksh(), the file dialog returning file
load_ksh(s, file) ==
    LET s3 == load_ksh_block(s, file)
    IN  IF file = Cancelled \/ ~Ok(s3) THEN s3
        ELSE update_effect_def_button_state(
                 [s3 EXCEPT !.buttons = [b \in Buttons |->
                                           IF b \in ExportButtons THEN TRUE ELSE @[b]]])

(***************************************************************************)
(* Editing the metadata and exporting.                                     *)
(***************************************************************************)
\* the text inputs of the "Song info" tab export_xml validates
TextFields == {"title_yomigana", "artist_yomigana", "ascii_label", "release_date"}

\* update_and_validate(sender, app_data) for the input of a text field, a
\* BPM input, which holds app_data when the callback runs, or the
\* background combo (app_data the id ENUM_REGEX finds in the item): an
\* unset song_chart_data raises AttributeError, which is passed over
update_and_validate(s, sender, app_data) ==
    LET max_value == s.bpm_input["max_bpm"]
        min_value == s.bpm_input["min_bpm"]
        s1 == IF sender = "background"
              THEN [s EXCEPT !.gmbg.background_id = app_data,
                             !.gmbg.available = has_image(app_data)]
              ELSE IF sender = "min_bpm"
              THEN [s EXCEPT !.bpm_input[sender] =
                                 IF app_data > max_value THEN max_value ELSE app_data]
              ELSE IF sender = "max_bpm"
              THEN [s EXCEPT !.bpm_input[sender] =
                                 IF app_data < min_value THEN min_value ELSE app_data]
              ELSE s
    IN  IF s.song_info = NoSongInfo THEN s1
        ELSE [s1 EXCEPT !.song_info[sender] = app_data]

\* a change_image_texture that stores the id of the previewed background in
\* the metadata when the preview starts
change_image_texture_storing(s, hovered, preview_visible) ==
    LET g == s.gmbg
        s1 == [s EXCEPT !.gmbg.tooltip_show = g.available]
        images == get_images(g.background_id)
        s2 == [s1 EXCEPT !.gmbg.image_index = 0, !.gmbg.images = images,
                         !.gmbg.visible = TRUE, !.gmbg.visible_time = s.now,
                         !.song_info = IF @ = NoSongInfo THEN @
                                       ELSE [@ EXCEPT !.background = 0]]
        now_index == ((s.now - g.visible_time) \div 3) % Len(g.images)
    IN  IF ~(hovered /\ preview_visible) THEN [s1 EXCEPT !.gmbg.visible = FALSE]
        ELSE IF ~g.visible
        THEN IF images = <<>> THEN Raise(s2, "IndexError")
             ELSE [s2 EXCEPT !.gmbg.texture = images[1]]
        ELSE IF g.images = <<>> THEN Raise(s1, "ZeroDivisionError")
        ELSE IF now_index = g.image_index THEN s1
        ELSE [s1 EXCEPT !.gmbg.image_index = now_index,
                        !.gmbg.texture = g.images[now_index + 1]]

\* change_image_texture(), called for every frame the background combo is
\* drawn in: hovered and preview_visible are dpg.is_item_hovered(background)
\* and dpg.is_item_visible(bg_preview)
change_image_texture(s, hovered, preview_visible) ==
    LET g == s.gmbg
        s1 == [s EXCEPT !.gmbg.tooltip_show = g.available]
        images == get_images(g.background_id)
        s2 == [s1 EXCEPT !.gmbg.image_index = 0, !.gmbg.images = images,
                         !.gmbg.visible = TRUE, !.gmbg.visible_time = s.now]
        now_index == ((s.now - g.visible_time) \div 3) % Len(g.images)
    IN  IF ~(hovered /\ preview_visible) THEN [s1 EXCEPT !.gmbg.visible = FALSE]
        ELSE IF ~g.visible
        THEN IF images = <<>> THEN Raise(s2, "IndexError")
             ELSE [s2 EXCEPT !.gmbg.texture = images[1]]
        ELSE IF g.images = <<>> THEN Raise(s1, "ZeroDivisionError")
        ELSE IF now_index = g.image_index THEN s1
        ELSE [s1 EXCEPT !.gmbg.image_index = now_index,
                        !.gmbg.texture = g.images[now_index + 1]]

\* the line a logger.warning(text) of validate_metadata puts in the log
MetadataWarning(text) == [level |-> "WARNING", text |-> text, timept |-> 0]

\* validate_metadata()
validate_metadata(s) ==
    LET info == s.song_info
        s1 == IF YomiganaMatch(info.title_yomigana) THEN s
              ELSE LogLine(s, MetadataWarning("Title yomigana"))
        s2 == IF YomiganaMatch(info.artist_yomigana) THEN s1
              ELSE LogLine(s1, MetadataWarning("Artist yomigana"))
        s3 == IF AsciiLabelOk(info.ascii_label) THEN s2
              ELSE LogLine(s2, MetadataWarning("ASCII label"))
    IN  IF StrptimeOk(info.release_date) THEN s3
        ELSE LogLine(s3, MetadataWarning("Release date"))

\* asksaveasfilename returns "" ("cancel") or a path, and open(file_path, "w")
\* succeeds ("ok") or raises OSError ("oserror")
Dialogs == {"cancel", "ok", "oserror"}

\* song_chart_data.write_xml(f): the metadata as it is
write_xml(s) == [kind |-> "xml", song_info |-> s.song_info]

\* song_chart_data.write_vox(f): the chart as it is
write_vox(s) ==
    [kind |-> "vox", song_info |-> s.song_info, effect_list |-> s.effect_list,
     autotab_list |-> s.autotab_list, autotab_infos |-> s.autotab_infos]

\* export_xml() and export_vox() from the file dialog to open(): the
\* dialog cancelled, or "Writing to" logged and open() raising or not
ExportDialog(s, dialog) ==
    LET s1 == LogLine(s, [level |-> "INFO", text |-> "Writing to", timept |-> 0])
    IN  IF dialog = "cancel" THEN s
        ELSE IF dialog = "oserror" THEN Raise(s1, "OSError")
        ELSE s1

\* export_xml() and export_vox() from the write on: file is written
ExportWrite(s, file) ==
    LogLine([s EXCEPT !.written = file],
            [level |-> "INFO", text |-> "File saved", timept |-> 0])

\* export_xml() and export_vox() from the file dialog on
ExportBody(s, dialog, file) ==
    IF dialog = "ok" THEN ExportWrite(ExportDialog(s, dialog), file)
    ELSE ExportDialog(s, dialog)

\* an export_xml that gives up when validate_metadata has logged a warning
export_xml_blocking(s, dialog) ==
    LET button_state == s.buttons
        s1 == disable_buttons_enter(s)
        s2 == validate_metadata(s1)
    IN  IF s.song_info = NoSongInfo
        THEN Raise(disable_buttons_exit(s1, button_state), "AttributeError")
        ELSE IF s2.log # s1.log THEN disable_buttons_exit(s2, button_state)
        ELSE disable_buttons_exit(ExportBody(s2, dialog, write_xml(s2)), button_state)

\* export_xml(), the file dialog ending as dialog says
export_xml(s, dialog) ==
    LET button_state == s.buttons
        s1 == disable_buttons_enter(s)
        s2 == validate_metadata(s1)
    IN  IF s.song_info = NoSongInfo
        THEN Raise(disable_buttons_exit(s1, button_state), "AttributeError")
        ELSE disable_buttons_exit(ExportBody(s2, dialog, write_xml(s2)), button_state)

\* export_vox(), the file dialog ending as dialog says
export_vox(s, dialog) ==
    LET button_state == s.buttons
        s1 == disable_buttons_enter(s)
    IN  IF s.song_info = NoSongInfo
        THEN Raise(disable_buttons_exit(s1, button_state), "AttributeError")
        ELSE disable_buttons_exit(ExportBody(s1, dialog, write_vox(s1)), button_state)

(***************************************************************************)
(* The command interpreter of the parser: the commands written as          *)
(* comments at the time points of the body of a chart.                     *)
(***************************************************************************)
\* number of time points of the body of the chart that is parsed
NumBodyPts == 4

\* the two volume tracks, and the time points each has an authored laser
\* point at; its laser segment runs from the first to the last of them
Sides == {"L", "R"}
LaserPoints(side) == IF side = "L" THEN {1, 3} ELSE {2, 3}

\* only the authored points count as on the laser track
OnTrackAtEndpoint(side, timept) == timept \in LaserPoints(side)

\* the time point is on the laser track of the side, at an authored point
\* or inside the segment
OnTrack(side, timept) ==
    \E a \in LaserPoints(side) : \E b \in LaserPoints(side) : a <= timept /\ timept <= b

\* the sides a command names, in the order they are handled
SidesOf(which) == IF which = "LR" THEN <<"L", "R">> ELSE <<which>>

\* curve types: 2 linear, 4 ease-out, 5 ease-in
CurveTypes == {2, 4, 5}

\* some laser segment runs through the time point
OnSomeTrack(timept) == \E side \in Sides : OnTrack(side, timept)

\* the time points a measure starts at: a measure has two time points
MeasureStarts == {t \in 1..NumBodyPts : t % 2 = 1}

\* no filter override is active
NoFilter == [kind |-> "none", start |-> 0]

\* the interpreter as the parse of the body starts
InitialInterp ==
    [timept |-> 1, ncmds |-> 0, open |-> {}, filter |-> NoFilter, bars |-> TRUE,
     scripts |-> {}, spans |-> {}, script_sections |-> {}, bar_lines |-> {},
     laser_points |-> {}, warnings |-> <<>>, done |-> FALSE]

\* a warning of the interpreter
Warn(in, what) == [in EXCEPT !.warnings = Append(@, [what |-> what, timept |-> in.timept])]

\* the open spans of a side
OpenOn(in, side) == {span \in in.open : span.side = side}

\* the open spans of a side are closed at the current time point
CloseOpen(in, side) ==
    [in EXCEPT !.open = @ \ OpenOn(in, side),
               !.spans = @ \cup {[side |-> span.side, type |-> span.type,
                                   start |-> span.start, end |-> in.timept] :
                                     span \in OpenOn(in, side)}]

\* a curveBegin that leaves the span the side has open as it is
curveBeginSideKeeping(in, side, type) ==
    IF ~OnTrack(side, in.timept) THEN Warn(in, "off track")
    ELSE [in EXCEPT !.open = @ \cup {[side |-> side, type |-> type, start |-> in.timept]}]

\* curveBegin for one side
curveBeginSide(in, side, type) ==
    IF ~OnTrack(side, in.timept) THEN Warn(in, "off track")
    ELSE [CloseOpen(in, side) EXCEPT
            !.open = @ \cup {[side |-> side, type |-> type, start |-> in.timept]}]

\* curveBeginL, curveBeginR, curveBeginLR = types: one type for each named
\* side, or one type for both
curveBegin(in, which, types) ==
    LET sides == SidesOf(which)
        in1 == curveBeginSide(in, sides[1], types[1])
    IN  IF Len(sides) = 1 THEN in1
        ELSE curveBeginSide(in1, sides[2], types[Len(types)])

\* a curveEnd that takes the lack of an open span for the end of the
\* latest span of the side
curveEndSideReopening(in, side) ==
    IF OpenOn(in, side) = {}
    THEN [in EXCEPT !.spans = {IF span.side = side THEN [span EXCEPT !.end = in.timept]
                                ELSE span : span \in @}]
    ELSE CloseOpen(in, side)

\* curveEnd for one side
curveEndSide(in, side) ==
    IF OpenOn(in, side) = {} THEN Warn(in, "unmatched end")
    ELSE CloseOpen(in, side)

\* curveEndL, curveEndR, curveEndLR
curveEnd(in, which) ==
    LET sides == SidesOf(which)
        in1 == curveEndSide(in, sides[1])
    IN  IF Len(sides) = 1 THEN in1 ELSE curveEndSide(in1, sides[2])

\* applyFilter = kind: the peak filter cannot be overridden
FilterKinds == {"lpf", "hpf", "bitc", "1", "2", "3", "4", "5"}
\* an applyFilter that takes every kind
applyFilterAny(in, kind) == [in EXCEPT !.filter = [kind |-> kind, start |-> in.timept]]

applyFilter(in, kind) ==
    IF kind \notin FilterKinds THEN Warn(in, "unknown value")
    ELSE [in EXCEPT !.filter = [kind |-> kind, start |-> in.timept]]

\* hideBars = on | off
hideBars(in, value) == [in EXCEPT !.bars = (value = "off")]

\* an addBars that also shows the bar lines again
addBarsShowing(in) ==
    [in EXCEPT !.bars = TRUE, !.bar_lines = @ \cup {[timept |-> in.timept, by |-> "addBars"]}]

\* addBars: while the bar lines are hidden, a bar line at this very point
addBars(in) ==
    IF in.bars THEN in
    ELSE [in EXCEPT !.bar_lines = @ \cup {[timept |-> in.timept, by |-> "addBars"]}]

\* the directives of the time point are done: the bar line of a measure
\* that starts here is drawn if the bar lines are visible by now
LeavePoint(in) ==
    IF in.timept \in MeasureStarts /\ in.bars
    THEN [in EXCEPT !.bar_lines = @ \cup {[timept |-> in.timept, by |-> "measure"]}]
    ELSE in

\* on to the next time point: the filter override ends with the laser
\* segment
NextTimePoint(in) ==
    [LeavePoint(in) EXCEPT
        !.timept = @ + 1,
        !.filter = IF OnSomeTrack(in.timept) /\ ~OnSomeTrack(in.timept + 1) THEN NoFilter ELSE @]

\* the value of a digit, and of the digits of a number in a base
DigitValue(c) ==
    CASE c = "0" -> 0 [] c = "1" -> 1 [] c = "2" -> 2 [] c = "3" -> 3 [] c = "4" -> 4
      [] c = "5" -> 5 [] c = "6" -> 6 [] c = "7" -> 7 [] c = "8" -> 8 [] c = "9" -> 9
      [] c = "A" -> 10 [] c = "B" -> 11 [] c = "C" -> 12 [] c = "D" -> 13
      [] c = "E" -> 14 [] c = "F" -> 15
RECURSIVE DigitsValue(_, _)
DigitsValue(digits, base) ==
    IF digits = <<>> THEN 0
    ELSE DigitsValue(SubSeq(digits, 1, Len(digits) - 1), base) * base
         + DigitValue(digits[Len(digits)])

\* the track specifier: hexadecimal with the prefix 0x, binary with the
\* prefix 0b, or decimal
ParseMask(text) ==
    IF Len(text) > 2 /\ text[1] = "0" /\ text[2] = "x"
    THEN DigitsValue(SubSeq(text, 3, Len(text)), 16)
    ELSE IF Len(text) > 2 /\ text[1] = "0" /\ text[2] = "b"
    THEN DigitsValue(SubSeq(text, 3, Len(text)), 2)
    ELSE DigitsValue(text, 10)

\* the eight binary flags of a mask, the highest first
MaskBits(mask) == [k \in 1..8 |-> (mask \div 2^(8 - k)) % 2]

\* the tracks of the flags read as the two rows of labels of the diagram,
\* the upper row first
ScriptLaneOrderByRow ==
    <<"VOL-L", "BT-A", "BT-C", "FX-R", "FX-L", "BT-B", "BT-D", "VOL-R">>

\* the track each flag stands for, from the highest flag to the lowest
ScriptLaneOrder ==
    <<"VOL-L", "FX-L", "BT-A", "BT-B", "BT-C", "BT-D", "FX-R", "VOL-R">>

\* the tracks a mask names
ScriptLanes(mask) == {ScriptLaneOrder[k] : k \in {j \in 1..8 : MaskBits(mask)[j] = 1}}

\* scriptBegin = mask, id, ...: one script entry for each id
scriptBegin(in, text, ids) ==
    [in EXCEPT !.scripts = @ \cup {[mask |-> ParseMask(text),
                                     lanes |-> ScriptLanes(ParseMask(text)),
                                     id |-> ids[k], start |-> in.timept] :
                                        k \in 1..Len(ids)}]

\* scriptEnd: the active script entries end at this time point
scriptEnd(in) ==
    [in EXCEPT !.scripts = {},
               !.script_sections = @ \cup {[lanes |-> e.lanes, id |-> e.id,
                                             start |-> e.start, end |-> in.timept] :
                                               e \in in.scripts}]

\* a warning for each side with a span open at the end of the file
RECURSIVE WarnOpen(_, _)
WarnOpen(in, sides) ==
    IF sides = <<>> THEN in
    ELSE WarnOpen(IF OpenOn(in, Head(sides)) = {} THEN in ELSE Warn(in, "open at end of file"),
                  Tail(sides))

\* an end of file that drops the spans still open
EndOfFileDropping(in) ==
    [WarnOpen(LeavePoint(in), <<"L", "R">>) EXCEPT
        !.open = {}, !.filter = NoFilter, !.bars = TRUE, !.scripts = {}, !.done = TRUE]

\* the end of the file: the spans still open are closed at the final time
\* point, each with a warning, and the state is reset
EndOfFile(in) ==
    [CloseOpen(CloseOpen(WarnOpen(LeavePoint(in), <<"L", "R">>), "L"), "R") EXCEPT
        !.filter = NoFilter, !.bars = TRUE, !.scripts = {}, !.done = TRUE]

(***************************************************************************)
(* The line tokenizer over the body of a chart: a body line carries lane   *)
(* states, lane states with trailing directives, or text that violates the *)
(* grammar.                                                                *)
(***************************************************************************)
LineKinds == {"lanes", "directives", "malformed"}

\* the tokenizer as it starts on the body
InitialTokenizer(lines) ==
    [lines |-> lines, pos |-> 1, processed |-> <<>>, reported |-> <<>>,
     aborted |-> FALSE, done |-> FALSE]

\* a tokenizer that gives up at the first line that violates the grammar
TokenizeBodyLineAborting(tk) ==
    IF tk.lines[tk.pos] = "malformed"
    THEN [tk EXCEPT !.reported = Append(@, tk.pos), !.aborted = TRUE, !.done = TRUE]
    ELSE [tk EXCEPT !.processed = Append(@, tk.pos), !.pos = @ + 1]

\* the next body line: a line that violates the grammar is reported as a
\* MalformedBodyLineError and skipped
TokenizeBodyLine(tk) ==
    IF tk.lines[tk.pos] = "malformed"
    THEN [tk EXCEPT !.reported = Append(@, tk.pos), !.pos = @ + 1]
    ELSE [tk EXCEPT !.processed = Append(@, tk.pos), !.pos = @ + 1]

(***************************************************************************)
(* The curve interpolator: the intermediate laser points of the closed     *)
(* curve spans.  Positions are whole numbers; the progress along a span is *)
(* kept in parts of SineScale.                                             *)
(***************************************************************************)
\* the highest laser position
MaxPosition == 127

\* the number of steps a span is divided into
Subdivisions == 4

\* sin(k * pi / 8) for k = 0..4, in parts of SineScale
SineScale == 10000
SineTable == <<0, 3827, 7071, 9239, 10000>>

\* sin(t * pi / 2) and cos(t * pi / 2) at t = k / Subdivisions
Sine(k) == SineTable[k + 1]
Cosine(k) == SineTable[Subdivisions - k + 1]

\* an ease-in that leaves out the "1 -"
ProgressCosine(type, k) ==
    CASE type = 2 -> (k * SineScale) \div Subdivisions
      [] type = 4 -> Sine(k)
      [] type = 5 -> Cosine(k)

\* the positional progress p(t) at t = k / Subdivisions: linear, ease-out,
\* ease-in
Progress(type, k) ==
    CASE type = 2 -> (k * SineScale) \div Subdivisions
      [] type = 4 -> Sine(k)
      [] type = 5 -> SineScale - Cosine(k)

\* n / d rounded to the nearest whole number, for n >= 0 and d > 0
Rounded(n, d) == (2 * n + d) \div (2 * d)

\* delta * num / den rounded, for either sign of delta
ScaledBy(delta, num, den) ==
    IF delta >= 0 THEN Rounded(delta * num, den) ELSE 0 - Rounded((0 - delta) * num, den)

\* the positions of the authored laser points of the chart
AuthoredPosition(side, timept) ==
    IF side = "L" THEN (IF timept = 1 THEN 0 ELSE MaxPosition)
    ELSE (IF timept = 2 THEN MaxPosition ELSE 32)

\* the position of the laser of the side at a time point on its track: the
\* authored one, or the one on the straight line between its neighbours
LaserPosition(side, timept) ==
    LET a == CHOOSE x \in LaserPoints(side) :
                 x <= timept /\ \A y \in LaserPoints(side) : y <= timept => y <= x
        b == CHOOSE x \in LaserPoints(side) :
                 x >= timept /\ \A y \in LaserPoints(side) : y >= timept => y >= x
    IN  IF a = b THEN AuthoredPosition(side, a)
        ELSE AuthoredPosition(side, a)
             + ScaledBy(AuthoredPosition(side, b) - AuthoredPosition(side, a), timept - a, b - a)

Clamp(position) ==
    IF position < 0 THEN 0 ELSE IF position > MaxPosition THEN MaxPosition ELSE position

\* a span the interpolator works on: closed, with two boundary laser points
ValidSpan(span) ==
    /\ span.start < span.end
    /\ OnTrack(span.side, span.start)
    /\ OnTrack(span.side, span.end)

\* the position and the time, in Subdivisions-th parts of a time point, at
\* t = k / Subdivisions of the span
PositionAt(span, k) ==
    LET start == LaserPosition(span.side, span.start)
        end == LaserPosition(span.side, span.end)
    IN  Clamp(start + ScaledBy(end - start, Progress(span.type, k), SineScale))
TimeAt(span, k) == span.start * Subdivisions + k * (span.end - span.start)

\* the intermediate points of a span
CurvePoints(span) ==
    {[side |-> span.side, time |-> TimeAt(span, k), position |-> PositionAt(span, k)] :
        k \in 1..(Subdivisions - 1)}

\* the pass over the closed spans after the body is read
Interpolate(in) ==
    [in EXCEPT !.laser_points = UNION {CurvePoints(span) : span \in {p \in in.spans : ValidSpan(p)}}]

(***************************************************************************)
(* The callbacks as actions.                                               *)
(***************************************************************************)
Set(s) ==
    /\ effect_list' = s.effect_list
    /\ autotab_list' = s.autotab_list
    /\ autotab_infos' = s.autotab_infos
    /\ effect_def_combo' = s.effect_def_combo
    /\ autotab_effect_combo' = s.autotab_effect_combo
    /\ param_combo' = s.param_combo
    /\ param_setting' = s.param_setting
    /\ laser_combo' = s.laser_combo
    /\ log' = s.log
    /\ song_info' = s.song_info
    /\ buttons' = s.buttons
    /\ loaded_file' = s.loaded_file
    /\ log_pane' = s.log_pane
    /\ written' = s.written
    /\ gmbg' = s.gmbg
    /\ now' = s.now
    /\ bpm_input' = s.bpm_input
    /\ callbacks' = s.callbacks
    /\ interp' = s.interp

\* the window right after load_ksh loaded one of charts
Loaded(charts) ==
    \E s \in {load_ksh(Unloaded, [name |-> "chart.ksh", chart |-> chart]) :
                 chart \in charts} :
            /\ effect_list = s.effect_list
            /\ autotab_list = s.autotab_list
            /\ autotab_infos = s.autotab_infos
            /\ effect_def_combo = s.effect_def_combo
            /\ autotab_effect_combo = s.autotab_effect_combo
            /\ param_combo = s.param_combo
            /\ param_setting = s.param_setting
            /\ laser_combo = s.laser_combo
            /\ log = s.log
            /\ song_info = s.song_info
            /\ buttons = s.buttons
            /\ loaded_file = s.loaded_file
            /\ log_pane = s.log_pane
            /\ written = s.written
            /\ gmbg = s.gmbg
            /\ now = s.now
            /\ bpm_input = s.bpm_input
            /\ callbacks = s.callbacks
            /\ interp = s.interp

\* the New button; the model stops adding at MaxEffects entries
AddNewEffect ==
    /\ Len(effect_list) < MaxEffects
    /\ \A t \in DOMAIN autotab_infos : autotab_infos[t].which < MaxEffects
    /\ Set(add_new_effect(St))

\* the Update button, the "Effects" tab holding one of entries
UpdateEffect(entries) ==
    \E widgets \in entries : Set(update_effect(St, widgets))

\* the Delete button
DeleteEffect == Set(delete_effect(St))

\* the user picks an item of the effect combo of the "Effects" tab
LoadEffects ==
    \E choice \in 0..(Len(effect_def_combo.items) - 1) :
        Set(load_effects(St, choice))

\* the user picks an item of the effect combo of the "Autotab params" tab
UpdateAutotabParams ==
    \E choice \in 0..(Len(autotab_effect_combo.items) - 1) :
        Set(SelectAutotabEffect(St, choice))

\* the user picks an item of a parameter combo
UpdateAutotabParamSettings ==
    \E i \in Slots : \E choice \in 0..(Len(param_combo[i].items) - 1) :
        Set(SelectAutotabParam(St, i, choice))

\* the user edits a "Param range" input
UpdateChartAutotabValues(ranges) ==
    \E i \in Slots : \E app_data \in ranges :
        /\ param_setting[i]
        /\ Set(update_chart_autotab_values(St, app_data, i))

\* the user picks an item of the combo of a laser effect
UpdateAutotabValue ==
    \E timept \in DOMAIN autotab_infos : \E choice \in 0..(laser_combo[timept] - 1) :
        Set(update_autotab_value(St, timept, choice))

(***************************************************************************)
(* Spec: the effect list and the references to it.  The chart has          *)
(* NumTimePts laser effects; the parameter combos and range inputs of the  *)
(* "Autotab params" tab are left alone (they change nothing but the        *)
(* parameter selection and range of an autotab entry, which no callback    *)
(* of this specification reads before its last step).                      *)
(***************************************************************************)
\* what the user can put in the type combos and parameter inputs of the
\* "Effects" tab before pressing Update
RefWidgets ==
    {DefaultEffectEntry,
     EffectEntry([type |-> 2, params |-> <<1, 2>>], [type |-> 1, params |-> <<3>>])}

Init == Loaded(ParsedCharts(RefWidgets, MaxParsed, NumTimePts))

Next ==
    \/ AddNewEffect
    \/ UpdateEffect(RefWidgets)
    \/ DeleteEffect
    \/ LoadEffects
    \/ UpdateAutotabParams
    \/ UpdateAutotabValue

Spec == Init /\ [][Next]_vars

(***************************************************************************)
(* SpecParams: the parameter selection and range of the autotab entries.   *)
(* The chart has ParamTimePts laser effects, and every effect the user     *)
(* enters has parameters to select.                                        *)
(***************************************************************************)
\* number of laser effects of the chart loaded under SpecParams
ParamTimePts == 1

ParamWidgets ==
    {EffectEntry([type |-> 2, params |-> <<1, 2>>], [type |-> 1, params |-> <<3>>]),
     EffectEntry([type |-> 1, params |-> <<3>>], enum_to_effect(0))}

\* what the user can type in a "Param range" input
RangeInputs == {<<1, 2>>}

InitParams == Loaded(ParsedCharts(ParamWidgets, MaxParsed, ParamTimePts))

NextParams ==
    \/ AddNewEffect
    \/ UpdateEffect(ParamWidgets)
    \/ DeleteEffect
    \/ UpdateAutotabParams
    \/ UpdateAutotabParamSettings
    \/ UpdateChartAutotabValues(RangeInputs)

SpecParams == InitParams /\ [][NextParams]_vars

(***************************************************************************)
(* SpecApp: opening files, editing the metadata and exporting, with the    *)
(* log pane kept in full.  The model stops logging at MaxPane lines.       *)
(***************************************************************************)
\* number of lines the log pane holds before the model stops logging
MaxPane == 8

\* a callback that logs up to n lines may run
LogRoom(n) == log_pane.kept => Len(log_pane.children) + n <= MaxPane

\* the files the user can pick in the dialog of load_ksh: charts of one
\* effect entry and one laser effect, and a file the parser raises on
AppFiles ==
    {[name |-> "chart.ksh", chart |-> chart] :
        chart \in ParsedCharts({DefaultEffectEntry}, 1, 1)}
    \cup {[name |-> "bad.ksh", chart |-> ParserRaises]}

\* what the user can type in a text input of the "Song info" tab, a text
\* being the classes of its characters: halfwidth katakana, other ASCII, or
\* neither
TextInputs(sender) ==
    CASE sender = "title_yomigana" -> {<<"kana">>, <<"kana", "ascii">>}
      [] sender = "artist_yomigana" -> {<<"kana">>}
      [] sender = "ascii_label" -> {<<"ascii">>}
      [] sender = "release_date" -> {"20241301"}

\* the Open button
LoadKsh ==
    /\ buttons["open_button"]
    /\ LogRoom(2)
    /\ \E file \in {Cancelled} \cup AppFiles : Set(load_ksh(St, file))

\* the user edits a text input; the tabs are hidden until a chart is loaded
UpdateAndValidate ==
    /\ song_info # NoSongInfo
    /\ \E sender \in TextFields : \E app_data \in TextInputs(sender) :
           Set(update_and_validate(St, sender, app_data))

\* the XML button
ExportXml ==
    /\ buttons["xml_button"]
    /\ LogRoom(6)
    /\ \E dialog \in Dialogs : Set(export_xml(St, dialog))

\* the VOX button
ExportVox ==
    /\ buttons["vox_button"]
    /\ LogRoom(2)
    /\ \E dialog \in Dialogs : Set(export_vox(St, dialog))

InitApp ==
    LET s == [Unloaded EXCEPT !.log_pane = EmptyPane]
    IN  /\ callbacks = s.callbacks
        /\ interp = s.interp
        /\ effect_list = s.effect_list
        /\ autotab_list = s.autotab_list
        /\ autotab_infos = s.autotab_infos
        /\ effect_def_combo = s.effect_def_combo
        /\ autotab_effect_combo = s.autotab_effect_combo
        /\ param_combo = s.param_combo
        /\ param_setting = s.param_setting
        /\ laser_combo = s.laser_combo
        /\ log = s.log
        /\ song_info = s.song_info
        /\ buttons = s.buttons
        /\ loaded_file = s.loaded_file
        /\ log_pane = s.log_pane
        /\ written = s.written
        /\ gmbg = s.gmbg
        /\ now = s.now
        /\ bpm_input = s.bpm_input

NextApp ==
    \/ LoadKsh
    \/ UpdateAndValidate
    \/ ExportXml
    \/ ExportVox

SpecApp == InitApp /\ [][NextApp]_vars

(***************************************************************************)
(* SpecPreview: the preview of the background over a loaded chart, with    *)
(* the clock running up to MaxClock half seconds.                          *)
(***************************************************************************)
\* the half seconds the clock of the model runs for
MaxClock == 7

\* time passes
Tick ==
    /\ now < MaxClock
    /\ now' = now + 1
    /\ UNCHANGED <<effect_list, autotab_list, autotab_infos, effect_def_combo,
                   autotab_effect_combo, param_combo, param_setting, laser_combo,
                   log, song_info, buttons, loaded_file, log_pane, written, gmbg,
                   bpm_input, callbacks, interp>>

\* a frame is drawn with the background combo in view, which calls
\* change_image_texture; the image of the tooltip is in view only with the
\* combo hovered and the tooltip shown
ChangeImageTexture ==
    \E hovered \in BOOLEAN : \E preview_visible \in BOOLEAN :
        /\ preview_visible => hovered /\ gmbg.tooltip_show
        /\ Set(change_image_texture(St, hovered, preview_visible))

\* the user picks an item of the background combo
UpdateBackground ==
    \E id \in Backgrounds : Set(update_and_validate(St, "background", id))

InitPreview == Loaded(ParsedCharts({DefaultEffectEntry}, 1, 1))

NextPreview ==
    \/ Tick
    \/ ChangeImageTexture
    \/ UpdateBackground
    \/ ExportXml
    \/ ExportVox

SpecPreview == InitPreview /\ [][NextPreview]_vars

(***************************************************************************)
(* SpecExport: the exports step by step.  DearPyGui draws the window on    *)
(* the main thread and runs the callbacks of the widgets one after the     *)
(* other on its callback thread: using a widget that is not disabled puts  *)
(* its callback in the queue, also while a callback is running.  The       *)
(* metadata input stands for the widgets disable_buttons does not list     *)
(* (metadata inputs, laser effect combos, autotab parameter widgets).      *)
(***************************************************************************)
\* number of callbacks that wait in the model
MaxQueue == 2

\* the button a callback belongs to; update_and_validate belongs to a text
\* input, which nothing disables
ButtonOf(cb) ==
    CASE cb.name = "export_xml" -> "xml_button"
      [] cb.name = "export_vox" -> "vox_button"
      [] cb.name = "add_new_effect" -> "effect_def_new"
      [] cb.name = "delete_effect" -> "effect_def_delete"
      [] cb.name = "update_and_validate" -> "none"

\* the callbacks the user can trigger
Callbacks ==
    {[name |-> n] : n \in {"export_xml", "export_vox", "add_new_effect", "delete_effect"}}
    \cup {[name |-> "update_and_validate", sender |-> "title_yomigana", app_data |-> t] :
             t \in {<<"kana">>, <<"ascii">>}}

\* the callbacks that write to song_chart_data
Mutating(cb) == cb.name \in {"add_new_effect", "delete_effect", "update_and_validate"}

\* song_chart_data: what the exports serialize
Model(s) ==
    [song_info |-> s.song_info, effect_list |-> s.effect_list,
     autotab_list |-> s.autotab_list, autotab_infos |-> s.autotab_infos]

\* the callback thread is inside the disable_buttons block of an export
InBlock(cbs) == cbs.running # Idle

\* the user uses a widget that is not disabled: its callback waits
Trigger ==
    \E cb \in Callbacks :
        /\ Len(callbacks.queue) < MaxQueue
        /\ ButtonOf(cb) # "none" => buttons[ButtonOf(cb)]
        /\ cb.name = "add_new_effect" =>
              /\ Len(effect_list) < MaxEffects
              /\ \A k \in 1..Len(callbacks.queue) : callbacks.queue[k] # cb
        /\ Set([St EXCEPT !.callbacks.queue = Append(@, cb)])

\* the callback thread, free, takes the callback that waited longest: an
\* export enters its block up to the file dialog, any other callback runs
\* to its end
RunCallback ==
    /\ ~InBlock(callbacks)
    /\ callbacks.queue # <<>>
    /\ LET cb == Head(callbacks.queue)
           s == [St EXCEPT !.callbacks.queue = Tail(@)]
           entered == disable_buttons_enter(s)
           block == [at |-> "dialog", cb |-> cb.name, button_state |-> s.buttons]
       IN  CASE cb.name = "export_xml" ->
                  Set([validate_metadata(entered) EXCEPT !.callbacks.running = block])
             [] cb.name = "export_vox" ->
                  Set([entered EXCEPT !.callbacks.running = block])
             [] cb.name = "add_new_effect" -> Set(add_new_effect(s))
             [] cb.name = "delete_effect" -> Set(delete_effect(s))
             [] cb.name = "update_and_validate" ->
                  Set(update_and_validate(s, cb.sender, cb.app_data))

\* the file dialog of the export closes
CloseDialog ==
    /\ InBlock(callbacks)
    /\ callbacks.running.at = "dialog"
    /\ \E dialog \in Dialogs :
          LET s == ExportDialog(St, dialog)
          IN  IF dialog = "ok"
              THEN Set([s EXCEPT !.callbacks.running.at = "writing"])
              ELSE Set([disable_buttons_exit(s, callbacks.running.button_state)
                          EXCEPT !.callbacks.running = Idle])

\* the export writes its file and leaves its block
WriteFile ==
    /\ InBlock(callbacks)
    /\ callbacks.running.at = "writing"
    /\ LET file == IF callbacks.running.cb = "export_xml" THEN write_xml(St)
                   ELSE write_vox(St)
       IN  Set([disable_buttons_exit(ExportWrite(St, file), callbacks.running.button_state)
                  EXCEPT !.callbacks.running = Idle])

InitExport == Loaded(ParsedCharts({DefaultEffectEntry}, 1, 1))

NextExport ==
    \/ Trigger
    \/ RunCallback
    \/ CloseDialog
    \/ WriteFile

SpecExport == InitExport /\ [][NextExport]_vars

(***************************************************************************)
(* SpecCommands: the command interpreter over the NumBodyPts time points   *)
(* of a chart that has up to MaxCmds commands.                             *)
(***************************************************************************)
\* number of commands in the body of the chart
MaxCmds == 2

\* the next command of the time point is handled, leaving the interpreter as in
Command(in) ==
    /\ ~interp.done
    /\ interp.ncmds < MaxCmds
    /\ Set([St EXCEPT !.interp = [in EXCEPT !.ncmds = interp.ncmds + 1]])

\* the track specifiers and script ids the chart writes
MaskTexts == {<<"0", "x", "A", "2">>, <<"0", "b", "1", "0", "1", "0", "0", "0", "1", "0">>,
              <<"1", "6", "2">>, <<"0", "x", "5", "D">>}
ScriptIds == {<<3>>, <<3, 4>>}

CurveBegin ==
    \E which \in {"L", "R", "LR"} : \E types \in {<<2>>, <<4>>, <<2, 5>>} :
        /\ Len(types) <= Len(SidesOf(which))
        /\ Command(curveBegin(interp, which, types))

CurveEnd == \E which \in {"L", "R", "LR"} : Command(curveEnd(interp, which))

ApplyFilter == \E kind \in {"lpf", "hpf", "peak"} : Command(applyFilter(interp, kind))

HideBars == \E value \in {"on", "off"} : Command(hideBars(interp, value))

AddBars == Command(addBars(interp))

ScriptBegin ==
    \E text \in MaskTexts : \E ids \in ScriptIds : Command(scriptBegin(interp, text, ids))

ScriptEnd == Command(scriptEnd(interp))

\* the commands of the time point are done: on to the next time point
NextPoint ==
    /\ ~interp.done
    /\ interp.timept < NumBodyPts
    /\ Set([St EXCEPT !.interp = NextTimePoint(interp)])

\* the body ends after its final time point
EndOfBody ==
    /\ ~interp.done
    /\ interp.timept = NumBodyPts
    /\ Set([St EXCEPT !.interp = Interpolate(EndOfFile(interp))])

InitCommands ==
    LET s == [Unloaded EXCEPT !.interp = InitialInterp]
    IN  /\ callbacks = s.callbacks
        /\ interp = s.interp
        /\ effect_list = s.effect_list
        /\ autotab_list = s.autotab_list
        /\ autotab_infos = s.autotab_infos
        /\ effect_def_combo = s.effect_def_combo
        /\ autotab_effect_combo = s.autotab_effect_combo
        /\ param_combo = s.param_combo
        /\ param_setting = s.param_setting
        /\ laser_combo = s.laser_combo
        /\ log = s.log
        /\ song_info = s.song_info
        /\ buttons = s.buttons
        /\ loaded_file = s.loaded_file
        /\ log_pane = s.log_pane
        /\ written = s.written
        /\ gmbg = s.gmbg
        /\ now = s.now
        /\ bpm_input = s.bpm_input

NextCommands ==
    \/ CurveBegin
    \/ CurveEnd
    \/ ApplyFilter
    \/ HideBars
    \/ AddBars
    \/ ScriptBegin
    \/ ScriptEnd
    \/ NextPoint
    \/ EndOfBody

SpecCommands == InitCommands /\ [][NextCommands]_vars

(***************************************************************************)
(* SpecBpm: the two BPM inputs of a loaded chart, edited to values up to   *)
(* MaxBpm.                                                                 *)
(***************************************************************************)
\* the highest BPM the user types
MaxBpm == 5

UpdateMinBpm == \E app_data \in 0..MaxBpm : Set(update_and_validate(St, "min_bpm", app_data))

UpdateMaxBpm == \E app_data \in 0..MaxBpm : Set(update_and_validate(St, "max_bpm", app_data))

InitBpm == Loaded(ParsedCharts({DefaultEffectEntry}, 1, 1))

NextBpm ==
    \/ UpdateMinBpm
    \/ UpdateMaxBpm

SpecBpm == InitBpm /\ [][NextBpm]_vars

(***************************************************************************)
(* SpecTokenizer: the tokenizer over a body of up to MaxLines lines.       *)
(***************************************************************************)
\* number of lines of the body
MaxLines == 3

Bodies == UNION {[1..n -> LineKinds] : n \in 0..MaxLines}

BodyLine ==
    /\ ~interp.done
    /\ interp.pos <= Len(interp.lines)
    /\ Set([St EXCEPT !.interp = TokenizeBodyLine(interp)])

EndOfLines ==
    /\ ~interp.done
    /\ interp.pos > Len(interp.lines)
    /\ Set([St EXCEPT !.interp.done = TRUE])

InitTokenizer ==
    \E s \in {[Unloaded EXCEPT !.interp = InitialTokenizer(lines)] : lines \in Bodies} :
        /\ callbacks = s.callbacks
        /\ interp = s.interp
        /\ effect_list = s.effect_list
        /\ autotab_list = s.autotab_list
        /\ autotab_infos = s.autotab_infos
        /\ effect_def_combo = s.effect_def_combo
        /\ autotab_effect_combo = s.autotab_effect_combo
        /\ param_combo = s.param_combo
        /\ param_setting = s.param_setting
        /\ laser_combo = s.laser_combo
        /\ log = s.log
        /\ song_info = s.song_info
        /\ buttons = s.buttons
        /\ loaded_file = s.loaded_file
        /\ log_pane = s.log_pane
        /\ written = s.written
        /\ gmbg = s.gmbg
        /\ now = s.now
        /\ bpm_input = s.bpm_input

NextTokenizer ==
    \/ BodyLine
    \/ EndOfLines

SpecTokenizer == InitTokenizer /\ [][NextTokenizer]_vars

(***************************************************************************)
(* The claims about the effect list and the references to it.              *)
(***************************************************************************)
\* the effect index a button of the "Effects" tab works on
EffectIndex == get_combo_index(effect_def_combo)

\* the laser effects that name the effect entry i
RefsTo(i) == {t \in DOMAIN autotab_infos : autotab_infos[t].which = i}

\* C1: whatever sequence of add_new_effect and delete_effect has run, the
\* effect list holds at least one entry.
C1_EffectListNeverEmpty == Len(effect_list) >= 1

\* C2: whatever sequence of add, update, delete and laser-effect
\* assignments has run, every laser-effect reference is an index of the
\* effect list: 0 <= which < len(effect_list).
C2_ReferencesInRange ==
    \A t \in DOMAIN autotab_infos :
        0 <= autotab_infos[t].which /\ autotab_infos[t].which < Len(effect_list)

\* C3: add_new_effect at index i puts a default entry at position i of the
\* effect list, adds 1 to every laser-effect reference and every autotab
\* effect_index that was at or above i, and leaves the others as they were.
C3_AddShiftsReferences ==
    HasComboIndex(effect_def_combo) =>
        LET i == EffectIndex
            r == add_new_effect(St)
            moved(k) == IF k - 1 >= i THEN k + 1 ELSE k
            shifted(x) == IF x >= i THEN x + 1 ELSE x
        IN  /\ Len(r.effect_list) = Len(effect_list) + 1
            /\ ListGet(r.effect_list, i) = DefaultEffectEntry
            /\ \A k \in 1..Len(effect_list) : r.effect_list[moved(k)] = effect_list[k]
            /\ \A t \in DOMAIN autotab_infos :
                   r.autotab_infos[t].which = shifted(autotab_infos[t].which)
            /\ Len(r.autotab_list) = Len(autotab_list) + 1
            /\ \A k \in 1..Len(autotab_list) : \A n \in Slots :
                   Slot(r.autotab_list[moved(k)], n) =
                       [Slot(autotab_list[k], n) EXCEPT !.effect_index = shifted(@)]

\* C4: delete_effect at index i takes 1 from every laser-effect reference
\* and every remaining autotab effect_index that was at or above i, a
\* reference equal to i included, and leaves those below i as they were.
C4_DeleteShiftsReferences ==
    HasComboIndex(effect_def_combo) =>
        LET i == EffectIndex
            r == delete_effect(St)
            kept == {k \in 1..Len(autotab_list) : k - 1 # i}
            moved(k) == IF k - 1 > i THEN k - 1 ELSE k
            shifted(x) == IF x >= i THEN x - 1 ELSE x
        IN  /\ \A t \in DOMAIN autotab_infos :
                   r.autotab_infos[t].which = shifted(autotab_infos[t].which)
            /\ \A k \in kept : \A n \in Slots :
                   /\ moved(k) \in 1..Len(r.autotab_list)
                   /\ Slot(r.autotab_list[moved(k)], n) =
                          [Slot(autotab_list[k], n) EXCEPT !.effect_index = shifted(@)]

\* C5: add_new_effect at index i and then delete_effect at index i bring
\* back the effect list, the autotab list, every reference and the
\* selection of the "Autotab params" tab, and log no warning.
C5_AddThenDeleteRestores ==
    HasComboIndex(effect_def_combo) /\ HasComboIndex(autotab_effect_combo) =>
        LET i == EffectIndex
            a == add_new_effect(St)
            r == delete_effect(Resume(a))
        IN  HasComboIndex(a.effect_def_combo) /\ get_combo_index(a.effect_def_combo) = i =>
                /\ r.effect_list = effect_list
                /\ r.autotab_list = autotab_list
                /\ r.autotab_infos = autotab_infos
                /\ HasComboIndex(r.autotab_effect_combo)
                /\ get_combo_index(r.autotab_effect_combo) = get_combo_index(autotab_effect_combo)
                /\ r.log = log

\* C6 as stated: delete_effect at an index some laser effect names logs
\* exactly one warning, and it names the time point of the reference;
\* at an index no laser effect names it logs none.
C6_ExactlyOneWarning ==
    HasComboIndex(effect_def_combo) =>
        LET refs == RefsTo(EffectIndex)
            r == delete_effect(St)
        IN  IF refs = {} THEN r.log = log
            ELSE \E t \in refs : r.log = Newest(<<DeletedWarning(t)>> \o log)

\* C6: delete_effect at index i logs one warning for each laser effect that
\* names i, each with the time point of its laser effect, the later time
\* point above the earlier, and nothing else; with no such laser effect it
\* logs nothing.
C6_OneWarningPerReference ==
    HasComboIndex(effect_def_combo) =>
        LET refs == RefsTo(EffectIndex)
            r == delete_effect(St)
            n == Cardinality(refs)
        IN  \E lines \in [1..n -> {DeletedWarning(t) : t \in refs}] :
                /\ \A t \in refs : \E k \in 1..n : lines[k].timept = t
                /\ \A k \in 1..n : \A j \in 1..n : k < j => lines[k].timept > lines[j].timept
                /\ r.log = Newest(lines \o log)

\* C6, its case reached: two warnings of one delete_effect in the log, one
\* for each of two laser effects
C6_Witness ==
    /\ Len(log) >= 2
    /\ log[1].level = "WARNING" /\ log[2].level = "WARNING"
    /\ log[1].timept # log[2].timept

\* C7: delete_effect on an effect list of one entry ends without an
\* exception, and then the effect list is one default entry, that entry is
\* the one selected, and the autotab list is its one fresh entry.
C7_DeleteOnlyEntry ==
    Len(effect_list) = 1 /\ HasComboIndex(effect_def_combo) =>
        LET r == delete_effect(St)
        IN  /\ Ok(r)
            /\ r.effect_list = <<DefaultEffectEntry>>
            /\ HasComboIndex(r.effect_def_combo)
            /\ get_combo_index(r.effect_def_combo) = 0
            /\ r.autotab_list = <<AutoTabEntry(0)>>

(***************************************************************************)
(* The claims about the autotab settings.                                  *)
(***************************************************************************)
\* C8: update_effect on index i makes autotab_list[i] a fresh
\* AutoTabEntry(i), whatever was selected for it before.
C8_UpdateResetsAutotab ==
    HasComboIndex(effect_def_combo) /\ InRange(effect_list, EffectIndex) =>
        \A widgets \in ParamWidgets :
            LET i == EffectIndex
                r == update_effect(St, widgets)
            IN  /\ InRange(r.autotab_list, i)
                /\ ListGet(r.autotab_list, i) = AutoTabEntry(i)

\* C9: picking a parameter p other than "(none)" in slot n for effect k
\* sets the slot's param_index to the index of p and its min_value and
\* max_value to the value p has in effect k now; the other slot of the
\* autotab entry stays as it was.
C9_ParamSelectionSetsRange ==
    HasComboIndex(autotab_effect_combo) =>
        LET k == get_combo_index(autotab_effect_combo)
        IN  InRange(effect_list, k) /\ InRange(autotab_list, k) =>
                \A n \in Slots : \A choice \in 1..(Len(param_combo[n].items) - 1) :
                    LET p == ListGet(param_combo[n].items, choice)
                        effect == Slot(ListGet(effect_list, k), n)
                        r == SelectAutotabParam(St, n, choice)
                        new == ListGet(r.autotab_list, k)
                    IN  /\ HasField(effect, p)
                        /\ Slot(new, n).param_index = ListIndex(ParamList(effect), p)
                        /\ Slot(new, n).min_value = GetField(effect, p)
                        /\ Slot(new, n).max_value = GetField(effect, p)
                        /\ Slot(new, 3 - n) = Slot(ListGet(autotab_list, k), 3 - n)

\* C10: the param_index of every autotab setting is 0 or the index of a
\* parameter of the effect it belongs to now, so that
\* param_list[param_index] is in range.
C10_ParamIndexInRange ==
    \A k \in 1..Len(autotab_list) : \A n \in Slots :
        \/ Slot(autotab_list[k], n).param_index = 0
        \/ /\ k <= Len(effect_list)
           /\ InRange(ParamList(Slot(effect_list[k], n)), Slot(autotab_list[k], n).param_index)

\* C11: when the parser raises during load_ksh, the chart the window holds
\* stays the one it held before (or stays unset), the exception leaves
\* load_ksh, and every button ends as enabled or disabled as it was before.
C11_FailedLoadKeepsChart ==
    \A file \in AppFiles :
        file.chart = ParserRaises =>
            LET r == load_ksh(St, file)
            IN  /\ ~Ok(r)
                /\ r.song_info = song_info
                /\ r.effect_list = effect_list
                /\ r.autotab_list = autotab_list
                /\ r.autotab_infos = autotab_infos
                /\ r.buttons = buttons

\* C11, its case reached: a file the parser raised on was opened over a
\* loaded chart, which is still there with its export buttons enabled
C11_Witness ==
    /\ loaded_file = "bad.ksh"
    /\ song_info # NoSongInfo
    /\ effect_list # <<>>
    /\ \A b \in Buttons : buttons[b]

\* the warnings of text among the lines a callback added to the log pane,
\* before being the pane it started with and after the pane it left
NewWarnings(before, after, text) ==
    {k \in 1..Len(after.children) :
        /\ after.children[k].id > Len(before.children)
        /\ after.children[k].line = MetadataWarning(text)}

C13_LogNewestFirst ==
    log_pane.kept =>
        /\ \A j, k \in 1..Len(log_pane.children) :
               j < k => log_pane.children[j].id > log_pane.children[k].id
        /\ log_pane.children # <<>> => log_pane.log_last_line = log_pane.children[1].id

\* C13, its case reached: the pane holds messages and warnings of a load
\* and an XML export, the last message of the export on top
C13_Witness ==
    /\ log_pane.kept
    /\ Len(log_pane.children) >= 5
    /\ log_pane.children[1].line.text = "File saved"
    /\ \E k \in 1..Len(log_pane.children) : log_pane.children[k].line.level = "WARNING"
    /\ log_pane.children[Len(log_pane.children)].line.text = "Reading from"

\* the state without the preview: song_chart_data, the widgets, the log and
\* what the exports read and wrote
WithoutPreview(s) == [s EXCEPT !.gmbg = InitialPreview, !.exc = "none"]

\* C15 as stated: a change_image_texture step changes nothing but
\* gmbg_visible, gmbg_visible_time, gmbg_images, gmbg_image_index and
\* whether the tooltip is shown.
C15_OnlyListedPreviewState ==
    \A hovered, preview_visible \in BOOLEAN :
        (preview_visible => hovered /\ gmbg.tooltip_show) =>
            LET r == change_image_texture(St, hovered, preview_visible)
            IN  /\ WithoutPreview(r) = WithoutPreview(St)
                /\ r.gmbg.background_id = gmbg.background_id
                /\ r.gmbg.available = gmbg.available
                /\ r.gmbg.texture = gmbg.texture

\* C15: the preview of the background is UI only: a change_image_texture
\* step (hover start, frame advance, hover end) changes nothing but
\* gmbg_visible, gmbg_visible_time, gmbg_images, gmbg_image_index, whether
\* the tooltip is shown and the value of the preview texture; song_chart_data
\* and all the VOX and XML exports read stay as they are.
C15_PreviewIsUiOnly ==
    \A hovered, preview_visible \in BOOLEAN :
        (preview_visible => hovered /\ gmbg.tooltip_show) =>
            LET r == change_image_texture(St, hovered, preview_visible)
            IN  /\ WithoutPreview(r) = WithoutPreview(St)
                /\ r.gmbg.background_id = gmbg.background_id
                /\ r.gmbg.available = gmbg.available
                /\ write_xml(r) = write_xml(St)
                /\ write_vox(r) = write_vox(St)

\* C15, its case reached: the preview has started and advanced to a later
\* frame over a loaded chart
C15_Witness ==
    /\ song_info # NoSongInfo
    /\ gmbg.visible
    /\ gmbg.image_index = 2
    /\ gmbg.texture = "frame2"

\* C14 as stated: while export_vox or export_xml is inside its
\* disable_buttons block, no callback that writes to the model can be
\* triggered.
C14_NoMutatingTrigger ==
    [][InBlock(callbacks) =>
          \A cb \in Callbacks :
              Mutating(cb) => callbacks'.queue # Append(callbacks.queue, cb)]_vars

\* C14: while export_vox or export_xml is inside its disable_buttons block,
\* the model is not written to: the callbacks of the buttons (the exports,
\* effect add and delete) cannot be triggered, and a callback of another
\* widget, which can be triggered, waits until the export has left its
\* block.
C14_SingleWriter ==
    [][InBlock(callbacks) =>
          /\ Model(St)' = Model(St)
          /\ \A cb \in Callbacks :
                 ButtonOf(cb) # "none" => callbacks'.queue # Append(callbacks.queue, cb)]_vars

\* C14, its case reached: an export is writing its file while an edit of
\* the metadata waits
C14_Witness ==
    /\ InBlock(callbacks)
    /\ callbacks.running.at = "writing"
    /\ callbacks.queue # <<>>
    /\ Head(callbacks.queue).name = "update_and_validate"
    /\ \A b \in Buttons : ~buttons[b]

\* the other volume track
OtherSide(side) == IF side = "L" THEN "R" ELSE "L"

\* C16: a curveBegin on a side that has a span open closes that span at
\* the new point before it opens the new one, so that each side has at
\* most one span open at every time point; a span is closed by a curveEnd
\* or a later curveBegin of its side, not by a curveBegin of the other
\* side nor by another command.
C16_BeginClosesPrevious ==
    /\ \A side \in Sides : Cardinality(OpenOn(interp, side)) <= 1
    /\ ~interp.done =>
          /\ \A side \in Sides : \A type \in CurveTypes :
                 LET r == curveBeginSide(interp, side, type)
                 IN  /\ OnTrack(side, interp.timept) =>
                           /\ OpenOn(r, side) =
                                 {[side |-> side, type |-> type, start |-> interp.timept]}
                           /\ r.spans = interp.spans \cup
                                 {[side |-> side, type |-> p.type, start |-> p.start,
                                   end |-> interp.timept] : p \in OpenOn(interp, side)}
                     /\ OpenOn(r, OtherSide(side)) = OpenOn(interp, OtherSide(side))
          /\ applyFilter(interp, "lpf").open = interp.open
          /\ hideBars(interp, "on").open = interp.open
          /\ scriptEnd(interp).open = interp.open
          /\ \A text \in MaskTexts : scriptBegin(interp, text, <<3>>).open = interp.open

\* C16, its case reached: after two curveBegin commands a side has the
\* span of the first closed where the span of the second starts
C16_Witness ==
    /\ interp.ncmds = 2
    /\ \E p \in interp.spans : \E q \in interp.open :
          p.side = q.side /\ p.start < p.end /\ p.end = q.start

\* C17: a curveEnd for a side that has no span open logs a warning and is
\* ignored: the open spans, the filter override, the bar flag, the active
\* scripts and the chart stay as they are.
C17_UnmatchedEndIgnored ==
    ~interp.done =>
        \A side \in Sides :
            OpenOn(interp, side) = {} =>
                LET r == curveEndSide(interp, side)
                IN  /\ r.warnings = Append(interp.warnings,
                                           [what |-> "unmatched end", timept |-> interp.timept])
                    /\ [r EXCEPT !.warnings = interp.warnings] = interp

\* C17, its case reached: an unmatched curveEnd was warned of, with a span
\* of the other side still open
C17_Witness ==
    /\ ~interp.done
    /\ interp.open # {}
    /\ \E k \in 1..Len(interp.warnings) : interp.warnings[k].what = "unmatched end"

\* C18: a curveBegin opens a span on a side exactly when the time point is
\* on the laser track of that side, at an authored point or between two of
\* them; otherwise it logs a warning and changes nothing else.
C18_BeginOnlyOnTrack ==
    ~interp.done =>
        \A side \in Sides : \A type \in CurveTypes :
            LET t == interp.timept
                r == curveBeginSide(interp, side, type)
                on_track ==
                    \/ t \in LaserPoints(side)
                    \/ \E a \in LaserPoints(side) : \E b \in LaserPoints(side) : a < t /\ t < b
            IN  IF on_track
                THEN /\ [side |-> side, type |-> type, start |-> t] \in r.open
                     /\ r.warnings = interp.warnings
                ELSE /\ r.warnings = Append(interp.warnings,
                                            [what |-> "off track", timept |-> t])
                     /\ [r EXCEPT !.warnings = interp.warnings] = interp

\* C18, its case reached: a span was opened between two authored points of
\* the left track, and a curveBegin off the track was warned of
C18_Witness ==
    /\ \E q \in interp.open : q.side = "L" /\ q.start = 2
    /\ 2 \notin LaserPoints("L")
    /\ \E k \in 1..Len(interp.warnings) : interp.warnings[k].what = "off track"

\* C19: at the end of the file every span still open is closed at the
\* final time point of the chart with a warning, and afterwards no state
\* is left that is carried across time points: no open span, no filter
\* override, no active script.
C19_EndOfFileClosesAll ==
    /\ interp.done => interp.open = {} /\ interp.filter = NoFilter /\ interp.scripts = {}
    /\ ~interp.done /\ interp.timept = NumBodyPts =>
          LET r == EndOfFile(interp)
              new == SubSeq(r.warnings, Len(interp.warnings) + 1, Len(r.warnings))
          IN  /\ r.done
              /\ r.open = {} /\ r.filter = NoFilter /\ r.scripts = {}
              /\ r.spans = interp.spans \cup
                    {[side |-> p.side, type |-> p.type, start |-> p.start,
                      end |-> NumBodyPts] : p \in interp.open}
              /\ Len(new) = Cardinality(interp.open)
              /\ \A k \in 1..Len(new) :
                    new[k] = [what |-> "open at end of file", timept |-> NumBodyPts]

\* C19, its case reached: the file ended with a span open; the span is
\* closed at the final time point and the warning is logged
C19_Witness ==
    /\ interp.done
    /\ \E p \in interp.spans : p.start < NumBodyPts /\ p.end = NumBodyPts
    /\ interp.warnings # <<>>
    /\ interp.warnings[Len(interp.warnings)].what = "open at end of file"
    /\ interp.ncmds = MaxCmds

\* C20 as stated: scriptBegin=0xA2,3 gives the mask 10100010 and, the
\* flags standing from the highest to the lowest for VOL-L, BT-A, BT-C,
\* FX-R, FX-L, BT-B, BT-D, VOL-R, the tracks VOL-L, BT-C, FX-R and BT-B,
\* with script id 3.
C20_DecodesByRow ==
    ~interp.done =>
        LET r == scriptBegin(interp, <<"0", "x", "A", "2">>, <<3>>)
        IN  /\ MaskBits(ParseMask(<<"0", "x", "A", "2">>)) = <<1, 0, 1, 0, 0, 0, 1, 0>>
            /\ ScriptLaneOrder =
                  <<"VOL-L", "BT-A", "BT-C", "FX-R", "FX-L", "BT-B", "BT-D", "VOL-R">>
            /\ r.scripts = interp.scripts \cup
                  {[mask |-> 162, lanes |-> {"VOL-L", "BT-C", "FX-R", "BT-B"}, id |-> 3,
                    start |-> interp.timept]}

\* C20: scriptBegin=0xA2,3 gives the mask 10100010 and, the flags standing
\* from the highest to the lowest for VOL-L, FX-L, BT-A, BT-B, BT-C, BT-D,
\* FX-R, VOL-R, the tracks VOL-L, BT-A and FX-R, with script id 3.
C20_ScriptMaskDecodes ==
    ~interp.done =>
        LET r == scriptBegin(interp, <<"0", "x", "A", "2">>, <<3>>)
            order == <<"VOL-L", "FX-L", "BT-A", "BT-B", "BT-C", "BT-D", "FX-R", "VOL-R">>
            bits == MaskBits(ParseMask(<<"0", "x", "A", "2">>))
        IN  /\ bits = <<1, 0, 1, 0, 0, 0, 1, 0>>
            /\ \A k \in 1..8 : bits[k] = 1 <=> order[k] \in {"VOL-L", "BT-A", "FX-R"}
            /\ r.scripts = interp.scripts \cup
                  {[mask |-> 162, lanes |-> {"VOL-L", "BT-A", "FX-R"}, id |-> 3,
                    start |-> interp.timept]}

\* C20, its case reached: the script entry of scriptBegin=0xA2,3 is active
C20_Witness ==
    \E e \in interp.scripts :
        e.mask = 162 /\ e.lanes = {"VOL-L", "BT-A", "FX-R"} /\ e.id = 3

(***************************************************************************)
(* The claims about the filter override and the bar lines.                 *)
(***************************************************************************)
\* the kinds an applyFilter command may be written with
WrittenKinds == FilterKinds \cup {"peak"}

\* C21: applyFilter with one of lpf, hpf, bitc, 1..5 makes that kind the one
\* active filter override, starting at the time point of the command and
\* replacing the override that was active, and changes nothing else; with
\* peak it is rejected with a warning and the active override stays as it
\* was.  The override lasts until the next accepted applyFilter or the end
\* of the laser segment: it changes in no other step before the end of the
\* file.
C21_FilterStep ==
    interp'.filter # interp.filter =>
        \/ /\ interp'.filter.kind \in FilterKinds
           /\ interp'.filter.start = interp.timept
           /\ interp'.timept = interp.timept
        \/ /\ interp'.filter = NoFilter
           /\ \/ interp'.done
              \/ /\ interp'.timept = interp.timept + 1
                 /\ OnSomeTrack(interp.timept)
                 /\ ~OnSomeTrack(interp'.timept)
C21_ApplyFilter ==
    /\ ~interp.done =>
          \A kind \in WrittenKinds :
              LET r == applyFilter(interp, kind)
              IN  IF kind = "peak"
                  THEN /\ r.filter = interp.filter
                       /\ Len(r.warnings) = Len(interp.warnings) + 1
                       /\ r.warnings[Len(r.warnings)].timept = interp.timept
                  ELSE r = [interp EXCEPT !.filter = [kind |-> kind, start |-> interp.timept]]
    /\ interp.filter.kind \in FilterKinds \cup {"none"}
C21_FilterOverride == C21_ApplyFilter /\ [][C21_FilterStep]_vars

\* an override that started at the first time point is active at the
\* second, inside the laser segment, where another applyFilter can follow
C21_Witness ==
    /\ ~interp.done
    /\ interp.timept = 2
    /\ interp.ncmds < MaxCmds
    /\ interp.filter = [kind |-> "lpf", start |-> 1]

\* C22: hideBars=on hides and hideBars=off shows the bar lines from its
\* point onward and draws nothing itself; the bar line of a measure is
\* decided after the directives of the point the measure starts at, so a
\* hideBars there already applies to it.  While the bar lines are hidden,
\* addBars draws a bar line at its own point and leaves the visibility flag
\* alone.  So a bar line is at a measure start only if the bar lines were
\* visible after the directives of that point or an addBars was issued
\* there.
C22_BarStep ==
    \A t \in MeasureStarts :
        LET drawn(in) == \E b \in in.bar_lines : b.timept = t
        IN  drawn(interp') /\ ~drawn(interp) =>
                /\ interp.timept = t
                /\ \/ /\ ~interp.bars /\ ~interp'.bars
                      /\ interp'.timept = t
                      /\ interp'.bar_lines = addBars(interp).bar_lines
                   \/ interp.bars /\ (interp'.done \/ interp'.timept = t + 1)
C22_Commands ==
    ~interp.done =>
        /\ \A value \in {"on", "off"} :
               hideBars(interp, value) = [interp EXCEPT !.bars = (value = "off")]
        /\ LET r == addBars(interp)
               here == [timept |-> interp.timept, by |-> "addBars"]
           IN  /\ r.bars = interp.bars
               /\ ~interp.bars => r = [interp EXCEPT !.bar_lines = @ \cup {here}]
        /\ LET r == LeavePoint(hideBars(interp, "on"))
           IN  r.bar_lines = interp.bar_lines
        /\ LET r == LeavePoint(hideBars(interp, "off"))
               line == [timept |-> interp.timept, by |-> "measure"]
           IN  interp.timept \in MeasureStarts => line \in r.bar_lines
        /\ \A b \in interp.bar_lines : b.by = "measure" => b.timept \in MeasureStarts
C22_BarLines == C22_Commands /\ [][C22_BarStep]_vars

\* the first measure has its bar line, the bar lines were hidden at the
\* start of the second measure, which has none, and an addBars drew a bar
\* line at the point after it
C22_Witness ==
    /\ interp.timept = 4
    /\ ~interp.bars
    /\ interp.bar_lines = {[timept |-> 1, by |-> "measure"], [timept |-> 4, by |-> "addBars"]}

RECURSIVE LinesBefore(_, _, _)
LinesBefore(lines, pos, malformed) ==
    IF pos <= 1 THEN <<>>
    ELSE LET rest == LinesBefore(lines, pos - 1, malformed)
         IN  IF (lines[pos - 1] = "malformed") = malformed THEN Append(rest, pos - 1) ELSE rest

\* C24: a body line that violates the grammar is reported and only that
\* line is skipped; the parse goes on, every other body line is processed,
\* in order, and the parse of the body is never aborted.
C24_Progress ==
    /\ interp.lines' = interp.lines
    /\ ~interp.done =>
          \/ interp'.pos = interp.pos + 1
          \/ interp'.done /\ interp.pos = Len(interp.lines) + 1
C24_Tokenized ==
    /\ ~interp.aborted
    /\ interp.pos \in 1..(Len(interp.lines) + 1)
    /\ interp.processed = LinesBefore(interp.lines, interp.pos, FALSE)
    /\ interp.reported = LinesBefore(interp.lines, interp.pos, TRUE)
C24_MalformedLineSkipped == C24_Tokenized /\ [][C24_Progress]_vars

\* the body is read to its end: its second line was reported and skipped,
\* the lines before and after it were processed
C24_Witness ==
    /\ interp.done
    /\ Len(interp.lines) = 3
    /\ interp.reported = <<2>>
    /\ interp.processed = <<1, 3>>

(***************************************************************************)
(* The claims about the metadata, the lists and the buttons of the app.    *)
(***************************************************************************)
\* the text is made of half-width katakana only, and of one at least
AllKana(text) == text # <<>> /\ \A k \in 1..Len(text) : text[k] = "kana"

\* C25: export_xml logs the title yomigana (and the artist yomigana)
\* warning exactly when the field is empty or has a character outside
\* U+FF66..U+FF9F; a field made of such characters only gives no warning.
C25_YomiganaWarnedExactly ==
    song_info # NoSongInfo =>
        \A dialog \in Dialogs :
            LET r == export_xml(St, dialog)
                Count(text) == Cardinality(NewWarnings(log_pane, r.log_pane, text))
            IN  /\ Count("Title yomigana") = IF AllKana(song_info.title_yomigana) THEN 0 ELSE 1
                /\ Count("Artist yomigana") = IF AllKana(song_info.artist_yomigana) THEN 0 ELSE 1

\* C26: after any sequence of add, update and delete on a loaded chart that
\* starts with as many autotab entries as effect entries, autotab_list and
\* effect_list have the same length.
C26_ListsSameLength == Len(autotab_list) = Len(effect_list)

\* C27: after any sequence of add, update and delete, the autotab entry at
\* index k names k in both of its settings.
C27_AutotabIndexIsPosition ==
    \A k \in 1..Len(autotab_list) :
        /\ autotab_list[k].effect1.effect_index = k - 1
        /\ autotab_list[k].effect2.effect_index = k - 1

\* C28: after any edits of the minimum and the maximum BPM of a chart that
\* starts with min_bpm <= max_bpm, the model has min_bpm <= max_bpm: an edit
\* that would cross the other bound stores the clamped value, the value the
\* input shows.
C28_BpmOrdered ==
    /\ song_info.min_bpm <= song_info.max_bpm
    /\ \A f \in BpmFields : song_info[f] = bpm_input[f]

\* C29: each of the four export buttons is enabled only if a chart has been
\* parsed and stored; a cancelled dialog and a failed parse enable none of
\* them, and neither does an export, however its dialog ends.
C29_ExportNeedsChart ==
    /\ \A b \in ExportButtons : buttons[b] => song_info # NoSongInfo
    /\ \A file \in {Cancelled, [name |-> "bad.ksh", chart |-> ParserRaises]} :
          \A after \in {load_ksh(St, file).buttons} :
              \A b \in ExportButtons : after[b] => buttons[b]
    /\ song_info # NoSongInfo =>
          \A dialog \in Dialogs :
              \A after \in {export_xml(St, dialog).buttons, export_vox(St, dialog).buttons} :
                  \A b \in ExportButtons : after[b] => buttons[b]

\* a parse has failed with no chart stored, and the export buttons are
\* disabled
C29_Witness ==
    /\ song_info = NoSongInfo
    /\ loaded_file = "bad.ksh"
    /\ \A b \in ExportButtons : ~buttons[b]
    /\ buttons["open_button"]

\* the buttons update_effect_def_button_state configures
StateButtons == {"effect_def_update", "effect_def_delete"}

\* C30: however a disable_buttons block is left (at its end, by the return
\* after a cancelled dialog, by an exception), each of the eight buttons
\* then has the enabled state it had on entry, whatever was changed inside
\* the block; inside the block the eight are disabled, but for those the
\* block itself configures.
C30_ButtonsRestored ==
    /\ \A s1 \in {disable_buttons_enter(St)} :
          /\ \A b \in Buttons : ~s1.buttons[b]
          /\ \A file \in {Cancelled} \cup AppFiles :
                /\ load_ksh_block(St, file).buttons = buttons
                /\ \A s2 \in {IF file = Cancelled THEN s1 ELSE LoadBody(s1, file)} :
                      /\ \A b \in Buttons \ StateButtons : ~s2.buttons[b]
                      /\ Ok(s2) /\ file # Cancelled => \A b \in StateButtons : s2.buttons[b]
          /\ song_info # NoSongInfo =>
                \A dialog \in Dialogs :
                    /\ export_xml(St, dialog).buttons = buttons
                    /\ export_vox(St, dialog).buttons = buttons
                    /\ ExportBody(validate_metadata(s1), dialog, write_xml(s1)).buttons
                           = s1.buttons
                    /\ ExportBody(s1, dialog, write_vox(s1)).buttons = s1.buttons

\* a chart is loaded and the last block was left by the exception of an
\* export to a file that cannot be written: "Writing to" is the newest
\* line, nothing was written, and every button is enabled again
C30_Witness ==
    /\ loaded_file = "chart.ksh"
    /\ written = NoFile
    /\ log_pane.children # <<>>
    /\ log_pane.children[1].line.text = "Writing to"
    /\ \A b \in Buttons : buttons[b]

(***************************************************************************)
(* The claim about the selections the tabs are refreshed with.             *)
(***************************************************************************)
\* C31: after add_new_effect and after delete_effect the two indices handed
\* to the refresh of the tabs are positions of the new effect list, from 0
\* to its length less one; the "Effects" tab selects the inserted entry
\* after an add and the entry now at the deleted position, or the new last
\* entry, after a delete, and the autotab tab keeps selecting the effect
\* entry it selected before whenever that entry still exists.
C31_SelectionsValid ==
    HasComboIndex(effect_def_combo) /\ HasComboIndex(autotab_effect_combo) =>
        LET effect_index == EffectIndex
            index0 == get_combo_index(autotab_effect_combo)
            Valid(l, i) == 0 <= i /\ i < Len(l)
            added == add_new_effect(St)
            deleted == delete_effect(St)
            a == AddAutotabIndex(index0, effect_index)
            d == DeleteAutotabIndex(index0, effect_index)
            i == DeleteListIndex(effect_index, deleted.effect_list)
        IN  /\ Valid(added.effect_list, effect_index)
            /\ Valid(added.effect_list, a)
            /\ Ok(added) =>
                  /\ get_combo_index(added.effect_def_combo) = effect_index
                  /\ ListGet(added.effect_list, effect_index) = DefaultEffectEntry
                  /\ get_combo_index(added.autotab_effect_combo) = a
                  /\ Valid(effect_list, index0) =>
                        ListGet(added.effect_list, a) = ListGet(effect_list, index0)
            /\ Valid(deleted.effect_list, i)
            /\ Valid(deleted.effect_list, d)
            /\ Ok(deleted) =>
                  /\ get_combo_index(deleted.effect_def_combo) = i
                  /\ i = effect_index \/ i = Len(deleted.effect_list) - 1
                  /\ get_combo_index(deleted.autotab_effect_combo) = d
                  /\ Valid(effect_list, index0) /\ index0 # effect_index =>
                        ListGet(deleted.effect_list, d) = ListGet(effect_list, index0)


====
